---- MODULE Spec2Model ----
(***************************************************************************)
(* A model of the text-to-coordinate pipeline of the OCR application:      *)
(*   - GPSExtractor (src/gps_extractor.py): pattern bank, exclusion bank,  *)
(*     parsing, validation, selection and the EXIF codec;                  *)
(*   - OCRWorker (src/ocr_worker.py): the detection merge, the batch loop  *)
(*     of run with its scan jobs, and the model cache OCRModelCache.       *)
(*                                                                         *)
(* Text is a sequence of one-character strings.  The five non-ASCII        *)
(* characters of the source are written "<deg>" (U+00B0), "<ord>"          *)
(* (U+00BA), "<ring>" (U+02DA), "<prime>" (U+2032), "<dprime>" (U+2033).   *)
(* Regular expressions are terms interpreted by a backtracking matcher     *)
(* with the priorities of Python's re module (greedy repetition, ordered   *)
(* alternation, leftmost match); every call of the source passes           *)
(* re.IGNORECASE, so the matcher always compares case-insensitively.       *)
(*                                                                         *)
(* A coordinate is an exact fixed-point number [neg, ip, fn]: sign, whole  *)
(* degrees and a fraction in units of 1/FracDen degree.  The source uses   *)
(* IEEE doubles; the model is exact for numerals of at most 5 decimals     *)
(* (degrees), 4 (minutes) and 3 (seconds), which the inputs respect.       *)
(*                                                                         *)
(* Five specifications share the variables:                                *)
(*   Spec       calls of extract_gps_coordinates on text lists;            *)
(*   SpecMerge  calls of _merge_detections on detection lists;             *)
(*   SpecExif   calls of decimal_to_exif_gps on coordinates;               *)
(*   SpecWorker OCRWorker.run on batches of images, step by step;          *)
(*   SpecCache  OCRModelCache.get_model called by several threads.         *)
(***************************************************************************)
EXTENDS Integers, Sequences, FiniteSets, TLC

VARIABLES
    text_list,           \* argument of extract_gps_coordinates
    parsed,              \* parse result of every match, last call
    candidates,          \* local "candidates" of the last call
    result,              \* value returned by the last call, None before
    calls,               \* number of calls made on text_list
    gps_patterns,        \* GPSExtractor.gps_patterns
    exclusion_patterns,  \* GPSExtractor.exclusion_patterns
    detections,          \* argument of _merge_detections (all_results)
    sorted_detections,   \* local "sorted_detections"
    merged,              \* local "merged"
    phase,               \* where the merge is: "collect", "loop", "returned"
    position,            \* index in sorted_detections of the detection the loop takes next
    coordinates,         \* arguments (lat, lon) of decimal_to_exif_gps
    gps_data,            \* value returned by decimal_to_exif_gps
    image_paths,         \* OCRWorker.image_paths: the images are numbered 1..n
    use_roi_detection,   \* OCRWorker.use_roi_detection
    pc,                  \* where OCRWorker.run stands
    image,               \* number of the image of the current loop iteration
    job,                 \* number of the region or full-image pass to scan next
    scan_jobs,           \* readtext calls made for the current image, with their outcome
    roi_results,         \* local "roi_results" of _process_coordinate_regions
    all_results,         \* local "all_results" of run
    merged_results,      \* local "merged_results" of run
    results,             \* OCRWorker.results
    signals,             \* the signals the worker has emitted, in order
    models,              \* OCRModelCache._models: key -> model, None if absent
    readers,             \* the easyocr.Reader objects constructed, in order
    thread_pc,           \* where each thread calling get_model stands
    thread_key,          \* local "model_key" of each thread
    thread_model,        \* value get_model returned to each thread
    process_btn,         \* OCRApp.process_btn.isEnabled()
    selected_files,      \* OCRApp.selected_files: the images are numbered 1..n
    ocr_workers,         \* the OCRWorker threads process_images has started, in order
    events,              \* signals of the workers queued for the window's thread
    dialogs,             \* the open QMessageBox dialogs, the innermost last
    img_array,           \* shape of the image passed to _process_coordinate_regions
    region_list,         \* local "regions" of _process_coordinate_regions
    region_reads,        \* what readtext returned for each region scanned, in order
    roi,                 \* value returned by _process_coordinate_regions
    _instance,           \* OCRModelCache._instance, None before the first OCRModelCache()
    cache_log            \* the calls made on OCRModelCache one after the other, with what they returned

extraction_vars ==
    <<text_list, parsed, candidates, result, calls, gps_patterns, exclusion_patterns>>
merge_vars == <<detections, sorted_detections, merged, phase, position>>
exif_vars == <<coordinates, gps_data>>
worker_vars ==
    <<image_paths, use_roi_detection, pc, image, job, scan_jobs, roi_results, all_results,
      merged_results, results, signals>>
cache_vars == <<models, readers>>
thread_vars == <<thread_pc, thread_key, thread_model>>
window_vars == <<process_btn, selected_files, ocr_workers, events, dialogs>>
regions_vars == <<img_array, region_list, region_reads, roi>>
sequential_vars == <<_instance, cache_log>>
vars ==
    <<extraction_vars, merge_vars, exif_vars, worker_vars, cache_vars, thread_vars,
      window_vars, regions_vars, sequential_vars>>

-----------------------------------------------------------------------------
(* Characters *)

UpperLetters == <<"A","B","C","D","E","F","G","H","I","J","K","L","M",
                  "N","O","P","Q","R","S","T","U","V","W","X","Y","Z">>
LowerLetters == <<"a","b","c","d","e","f","g","h","i","j","k","l","m",
                  "n","o","p","q","r","s","t","u","v","w","x","y","z">>
DigitChars == <<"0","1","2","3","4","5","6","7","8","9">>

ToLowerMap == [c \in {UpperLetters[k] : k \in 1..26} |->
                 LowerLetters[CHOOSE k \in 1..26 : UpperLetters[k] = c]]
ToUpperMap == [c \in {LowerLetters[k] : k \in 1..26} |->
                 UpperLetters[CHOOSE k \in 1..26 : LowerLetters[k] = c]]

UpperSet == DOMAIN ToLowerMap
LowerSet == DOMAIN ToUpperMap
DigitSet == {DigitChars[k] : k \in 1..10}
DigitValueMap == [c \in DigitSet |-> (CHOOSE k \in 1..10 : DigitChars[k] = c) - 1]

Lower(c) == IF c \in UpperSet THEN ToLowerMap[c] ELSE c
Upper(c) == IF c \in LowerSet THEN ToUpperMap[c] ELSE c

IsDigit(c) == c \in DigitSet
IsSpace(c) == c = " "
\* \w: letters, digits, underscore; U+00BA is a letter
IsWord(c) == c \in DigitSet \/ c \in UpperSet \/ c \in LowerSet \/ c \in {"_", "<ord>"}

DigitValue(c) == DigitValueMap[c]

\* str.upper(), str.lower()
upper(text) == [k \in 1..Len(text) |-> Upper(text[k])]
lower(text) == [k \in 1..Len(text) |-> Lower(text[k])]

RECURSIVE LStrip(_)
LStrip(text) == IF text # <<>> /\ IsSpace(Head(text)) THEN LStrip(Tail(text)) ELSE text
RECURSIVE RStrip(_)
RStrip(text) == IF text # <<>> /\ IsSpace(text[Len(text)])
                THEN RStrip(SubSeq(text, 1, Len(text) - 1)) ELSE text
\* str.strip()
strip(text) == RStrip(LStrip(text))

\* word in text (substring test)
Contains(text, word) ==
    \E i \in 1..(Len(text) - Len(word) + 1) : SubSeq(text, i, i + Len(word) - 1) = word

\* len(text.split()): number of maximal runs of non-space characters
SplitCount(text) ==
    Cardinality({i \in 1..Len(text) :
                   /\ ~IsSpace(text[i])
                   /\ (i = 1 \/ IsSpace(text[i - 1]))})

RECURSIVE Join(_)
\* ' '.join(text_list)
Join(list) == IF list = <<>> THEN <<>>
              ELSE IF Len(list) = 1 THEN list[1]
              ELSE list[1] \o <<" ">> \o Join(Tail(list))

-----------------------------------------------------------------------------
(* Regular expressions *)

\* Terms.  Literals are folded to lower case when a term is built and the
\* subject is folded when it is scanned (re.IGNORECASE).
Str(cs) == [t |-> "str", cs |-> lower(cs)]
Cls(lits, cats) == [t |-> "cls", lits |-> {Lower(c) : c \in lits}, cats |-> cats]
Digit == Cls({}, {"d"})
Space == Cls({}, {"s"})
Rep(lo, hi, x) == [t |-> "rep", lo |-> lo, hi |-> hi, x |-> x]
Opt(x) == Rep(0, 1, x)
Star(x) == Rep(0, -1, x)     \* hi = -1: unbounded
Plus(x) == Rep(1, -1, x)
Grp(n, x) == [t |-> "grp", n |-> n, x |-> x]
Alt(xs) == [t |-> "alt", xs |-> xs]
Cat(xs) == [t |-> "seq", xs |-> xs]

NoGroup == <<0, 0>>
NoCaps == [n \in 1..8 |-> NoGroup]
Fail == [ok |-> FALSE, s |-> 0, e |-> 0, caps |-> NoCaps]

ClsMatches(n, c) ==
    \/ c \in n.lits
    \/ "d" \in n.cats /\ IsDigit(c)
    \/ "s" \in n.cats /\ IsSpace(c)
    \/ "w" \in n.cats /\ IsWord(c)

StrMatches(cs, text, i) ==
    /\ i + Len(cs) - 1 <= Len(text)
    /\ \A k \in 1..Len(cs) : cs[k] = text[i + k - 1]

RECURSIVE RunLength(_, _, _, _, _)
\* the length of the longest run of at most lim (unbounded if negative)
\* characters of class n at position i, counting from c
RunLength(n, text, i, lim, c) ==
    IF c # lim /\ i + c <= Len(text) /\ ClsMatches(n, text[i + c])
    THEN RunLength(n, text, i, lim, c + 1) ELSE c

RECURSIVE Outcomes(_, _, _)
RECURSIVE OutcomesEach(_, _, _, _, _)
RECURSIVE OutcomesSeq(_, _, _, _, _)

\* The outcomes of matching term n from the state st = [e, caps] (position
\* and groups) in the folded text: every state in which a match of n can end,
\* in the order in which backtracking tries them (greedy repetitions longest
\* first, alternatives left to right).
Outcomes(n, st, text) ==
    CASE n.t = "str" ->
           IF StrMatches(n.cs, text, st.e)
           THEN <<[st EXCEPT !.e = st.e + Len(n.cs)]>> ELSE <<>>
      [] n.t = "cls" ->
           IF st.e <= Len(text) /\ ClsMatches(n, text[st.e])
           THEN <<[st EXCEPT !.e = st.e + 1]>> ELSE <<>>
      [] n.t = "seq" -> OutcomesSeq(n.xs, 1, Len(n.xs), <<st>>, text)
      [] n.t = "alt" ->
           IF Len(n.xs) = 1 THEN Outcomes(n.xs[1], st, text)
           ELSE Outcomes(n.xs[1], st, text) \o Outcomes(Alt(Tail(n.xs)), st, text)
      [] n.t = "rep" /\ n.x.t = "cls" ->
           \* greedy repetition of a character class: longest run first
           LET run == RunLength(n.x, text, st.e, n.hi, 0)
           IN IF run < n.lo THEN <<>>
              ELSE [k \in 1..(run - n.lo + 1) |-> [st EXCEPT !.e = st.e + run - k + 1]]
      [] n.t = "rep" /\ n.x.t # "cls" ->
           IF n.hi = 0 THEN <<st>>
           ELSE LET more == Rep(IF n.lo > 0 THEN n.lo - 1 ELSE 0,
                                IF n.hi > 0 THEN n.hi - 1 ELSE n.hi, n.x)
                IN OutcomesSeq(<<n.x, more>>, 1, 2, <<st>>, text)
                   \o (IF n.lo = 0 THEN <<st>> ELSE <<>>)
      [] n.t = "grp" ->
           LET inner == Outcomes(n.x, st, text)
           IN [k \in 1..Len(inner) |->
                 [inner[k] EXCEPT !.caps = [@ EXCEPT ![n.n] = <<st.e, inner[k].e>>]]]

\* the outcomes of term n from each of states[lo..hi] in turn
OutcomesEach(n, states, lo, hi, text) ==
    IF lo = hi THEN Outcomes(n, states[lo], text)
    ELSE LET mid == (lo + hi) \div 2
         IN OutcomesEach(n, states, lo, mid, text)
            \o OutcomesEach(n, states, mid + 1, hi, text)

\* the outcomes of the terms xs[lo..hi] in sequence from each of the states;
\* the terms are split in halves so that the nesting of the evaluation grows
\* with the logarithm of the length of the pattern
OutcomesSeq(xs, lo, hi, states, text) ==
    IF states = <<>> THEN <<>>
    ELSE IF lo > hi THEN states
    ELSE IF lo = hi THEN OutcomesEach(xs[lo], states, 1, Len(states), text)
    ELSE LET mid == (lo + hi) \div 2
         IN OutcomesSeq(xs, mid + 1, hi, OutcomesSeq(xs, lo, mid, states, text), text)

\* Match the terms of stk in sequence at position i of the folded text: the
\* first successful path in backtracking order, or Fail.
MatchK(stk, i, caps, text) ==
    LET ends == OutcomesSeq(stk, 1, Len(stk), <<[e |-> i, caps |-> caps]>>, text)
    IN IF ends = <<>> THEN Fail
       ELSE [ok |-> TRUE, s |-> 0, e |-> ends[1].e, caps |-> ends[1].caps]

RECURSIVE Nullable(_)
\* the term matches the empty string
Nullable(n) ==
    CASE n.t = "str" -> n.cs = <<>>
      [] n.t = "cls" -> FALSE
      [] n.t = "seq" -> \A k \in 1..Len(n.xs) : Nullable(n.xs[k])
      [] n.t = "alt" -> \E k \in 1..Len(n.xs) : Nullable(n.xs[k])
      [] n.t = "rep" -> n.lo = 0 \/ Nullable(n.x)
      [] n.t = "grp" -> Nullable(n.x)

RECURSIVE First(_)
\* the characters a match of the term can begin with, as a class
First(n) ==
    CASE n.t = "str" -> [lits |-> IF n.cs = <<>> THEN {} ELSE {n.cs[1]}, cats |-> {}]
      [] n.t = "cls" -> [lits |-> n.lits, cats |-> n.cats]
      [] n.t = "seq" ->
           LET used == {k \in 1..Len(n.xs) : \A j \in 1..(k - 1) : Nullable(n.xs[j])}
           IN [lits |-> UNION {First(n.xs[k]).lits : k \in used},
               cats |-> UNION {First(n.xs[k]).cats : k \in used}]
      [] n.t = "alt" ->
           [lits |-> UNION {First(n.xs[k]).lits : k \in 1..Len(n.xs)},
            cats |-> UNION {First(n.xs[k]).cats : k \in 1..Len(n.xs)}]
      [] n.t = "rep" -> First(n.x)
      [] n.t = "grp" -> First(n.x)

RECURSIVE Required(_)
\* sets of characters of which every match of the term contains a member
Required(n) ==
    CASE n.t = "str" -> {{n.cs[k]} : k \in 1..Len(n.cs)}
      [] n.t = "cls" -> IF n.cats = {} THEN {n.lits} ELSE {}
      [] n.t = "seq" -> UNION {Required(n.xs[k]) : k \in 1..Len(n.xs)}
      [] n.t = "alt" -> {}
      [] n.t = "rep" -> IF n.lo > 0 THEN Required(n.x) ELSE {}
      [] n.t = "grp" -> Required(n.x)

\* A compiled pattern: the term with its first-character class, which the
\* scan uses to skip positions where no match can begin, and the characters
\* a text must contain to hold a match at all.
Compile(re) ==
    [re |-> re, nullable |-> Nullable(re), first |-> First(re), required |-> Required(re)]

\* A text as the scan sees it under re.IGNORECASE: folded, with the set of
\* its characters.
Subject(text) ==
    LET folded == lower(text)
    IN [folded |-> folded, chars |-> {folded[i] : i \in 1..Len(folded)}]

\* the subject holds every character a match of pat needs
CanMatchIn(pat, subject) == \A s \in pat.required : s \cap subject.chars # {}

CanStartAt(pat, text, p) ==
    pat.nullable \/ (p <= Len(text) /\ ClsMatches(pat.first, text[p]))

RECURSIVE SearchFrom(_, _, _)
\* the leftmost match of pat in the folded text starting at or after pos
SearchFrom(pat, text, pos) ==
    LET starts == {p \in pos..(Len(text) + 1) : CanStartAt(pat, text, p)}
    IN IF starts = {} THEN Fail
       ELSE LET p == CHOOSE q \in starts : \A q2 \in starts : q <= q2
                r == MatchK(<<pat.re>>, p, NoCaps, text)
            IN IF r.ok THEN [r EXCEPT !.s = p] ELSE SearchFrom(pat, text, p + 1)

\* re.search(pat, text, re.IGNORECASE) is not None, for subject == Subject(text)
search(pat, subject) ==
    /\ CanMatchIn(pat, subject)
    /\ \E p \in 1..(Len(subject.folded) + 1) :
          /\ CanStartAt(pat, subject.folded, p)
          /\ MatchK(<<pat.re>>, p, NoCaps, subject.folded).ok

RECURSIVE FindIterFrom(_, _, _)
FindIterFrom(pat, text, pos) ==
    LET r == SearchFrom(pat, text, pos)
    IN IF ~r.ok THEN <<>>
       ELSE <<r>> \o FindIterFrom(pat, text, IF r.e > r.s THEN r.e ELSE r.e + 1)

\* list(re.finditer(pat, text, re.IGNORECASE)): non-overlapping, left to right
\* for subject == Subject(text)
finditer(pat, subject) ==
    IF CanMatchIn(pat, subject) THEN FindIterFrom(pat, subject.folded, 1) ELSE <<>>

\* match.group(n)
Group(m, n, text) == SubSeq(text, m.caps[n][1], m.caps[n][2] - 1)
\* match.group(0)
Group0(m, text) == SubSeq(text, m.s, m.e - 1)
\* match.groups()[n-1] is None
GroupIsNone(m, n) == m.caps[n] = NoGroup

-----------------------------------------------------------------------------
(* Pattern bank and exclusion bank (GPSExtractor.__init__) *)

degree_symbols ==
    Alt(<<Cls({"<deg>", "<ord>", "<ring>", "o", "0"}, {}), Cat(<<Str(<<"d", "e", "g">>), Opt(Cat(<<Str(<<"r", "e", "e">>), Opt(Str(<<"s">>))>>))>>)>>)

\* (?:{self.degree_symbols}\s*): the optional spaces belong to the last alternative only
DegSymSpaces ==
    Alt(<<Cls({"<deg>", "<ord>", "<ring>", "o", "0"}, {}), Cat(<<Str(<<"d", "e", "g">>), Opt(Cat(<<Str(<<"r", "e", "e">>), Opt(Str(<<"s">>))>>)), Star(Space)>>)>>)

\* gps_extractor.py:18  type labeled, priority 10
pattern_labeled ==
    Cat(<< Alt(<<Str(<<"G", "P", "S">>), Cat(<<Str(<<"C", "O", "O", "R", "D", "I", "N", "A", "T", "E">>), Opt(Str(<<"S">>))>>)>>),
           Star(Cls({":"}, {"s"})),
           Opt(Str(<<"(">>)),
           Grp(1, Cat(<<Opt(Cls({"+", "-"}, {})), Rep(1, 2, Digit), Opt(Cat(<<Str(<<".">>), Rep(1, 8, Digit)>>))>>)),
           Opt(DegSymSpaces),
           Opt(Str(<<",">>)),
           Star(Space),
           Grp(2, Cat(<<Opt(Cls({"+", "-"}, {})), Rep(1, 3, Digit), Opt(Cat(<<Str(<<".">>), Rep(1, 8, Digit)>>))>>)),
           Opt(DegSymSpaces),
           Opt(Str(<<")">>)) >>)

\* gps_extractor.py:23  type lat_lon, priority 9
pattern_lat_lon ==
    Cat(<< Str(<<"L">>),
           Alt(<<Str(<<"A", "T">>), Str(<<"a", "t">>), Str(<<"A", "T", "I", "T", "U", "D", "E">>)>>),
           Star(Cls({":"}, {"s"})),
           Grp(1, Cat(<<Opt(Cls({"+", "-"}, {})), Rep(1, 2, Digit), Opt(Cat(<<Str(<<".">>), Rep(1, 8, Digit)>>))>>)),
           Opt(DegSymSpaces),
           Opt(Grp(2, Cls({"N", "S"}, {}))),
           Star(Space),
           Opt(Str(<<",">>)),
           Star(Space),
           Str(<<"L">>),
           Alt(<<Str(<<"O", "N">>), Str(<<"o", "n", "g">>), Str(<<"O", "N", "G", "I", "T", "U", "D", "E">>)>>),
           Star(Cls({":"}, {"s"})),
           Grp(3, Cat(<<Opt(Cls({"+", "-"}, {})), Rep(1, 3, Digit), Opt(Cat(<<Str(<<".">>), Rep(1, 8, Digit)>>))>>)),
           Opt(DegSymSpaces),
           Opt(Grp(4, Cls({"E", "W"}, {}))) >>)

\* gps_extractor.py:30  type dms_dir_first, priority 9
pattern_dms_dir_first ==
    Cat(<< Grp(1, Cls({"N", "S"}, {})),
           Star(Space),
           Grp(2, Rep(1, 2, Digit)),
           DegSymSpaces,
           Grp(3, Rep(1, 2, Digit)),
           Plus(Cls({"'", "<prime>"}, {"s"})),
           Grp(4, Cat(<<Rep(1, 2, Digit), Opt(Cat(<<Str(<<".">>), Plus(Digit)>>))>>)),
           Star(Cls({"\"", "<dprime>"}, {"s"})),
           Opt(Str(<<",">>)),
           Star(Space),
           Grp(5, Cls({"E", "W"}, {})),
           Star(Space),
           Grp(6, Rep(1, 3, Digit)),
           DegSymSpaces,
           Grp(7, Rep(1, 2, Digit)),
           Plus(Cls({"'", "<prime>"}, {"s"})),
           Grp(8, Cat(<<Rep(1, 2, Digit), Opt(Cat(<<Str(<<".">>), Plus(Digit)>>))>>)),
           Star(Cls({"\"", "<dprime>"}, {"s"})) >>)

\* gps_extractor.py:35  type dms_dir_last, priority 9
pattern_dms_dir_last ==
    Cat(<< Grp(1, Rep(1, 2, Digit)),
           DegSymSpaces,
           Grp(2, Rep(1, 2, Digit)),
           Plus(Cls({"'", "<prime>"}, {"s"})),
           Grp(3, Cat(<<Rep(1, 2, Digit), Opt(Cat(<<Str(<<".">>), Plus(Digit)>>))>>)),
           Star(Cls({"\"", "<dprime>"}, {"s"})),
           Grp(4, Cls({"N", "S"}, {})),
           Star(Space),
           Opt(Str(<<",">>)),
           Star(Space),
           Grp(5, Rep(1, 3, Digit)),
           DegSymSpaces,
           Grp(6, Rep(1, 2, Digit)),
           Plus(Cls({"'", "<prime>"}, {"s"})),
           Grp(7, Cat(<<Rep(1, 2, Digit), Opt(Cat(<<Str(<<".">>), Plus(Digit)>>))>>)),
           Star(Cls({"\"", "<dprime>"}, {"s"})),
           Grp(8, Cls({"E", "W"}, {})) >>)

\* gps_extractor.py:42  type dm_dir_first, priority 8
pattern_dm_dir_first ==
    Cat(<< Grp(1, Cls({"N", "S"}, {})),
           Star(Space),
           Grp(2, Rep(1, 2, Digit)),
           DegSymSpaces,
           Grp(3, Cat(<<Rep(1, 2, Digit), Opt(Str(<<".">>)), Star(Digit)>>)),
           Star(Cls({"'", "<prime>"}, {"s"})),
           Opt(Str(<<",">>)),
           Star(Space),
           Grp(4, Cls({"E", "W"}, {})),
           Star(Space),
           Grp(5, Rep(1, 3, Digit)),
           DegSymSpaces,
           Grp(6, Cat(<<Rep(1, 2, Digit), Opt(Str(<<".">>)), Star(Digit)>>)),
           Star(Cls({"'", "<prime>"}, {"s"})) >>)

\* gps_extractor.py:47  type dm_dir_last, priority 8
pattern_dm_dir_last ==
    Cat(<< Grp(1, Rep(1, 2, Digit)),
           DegSymSpaces,
           Grp(2, Cat(<<Rep(1, 2, Digit), Opt(Str(<<".">>)), Star(Digit)>>)),
           Star(Cls({"'", "<prime>"}, {"s"})),
           Grp(3, Cls({"N", "S"}, {})),
           Star(Space),
           Opt(Str(<<",">>)),
           Star(Space),
           Grp(4, Rep(1, 3, Digit)),
           DegSymSpaces,
           Grp(5, Cat(<<Rep(1, 2, Digit), Opt(Str(<<".">>)), Star(Digit)>>)),
           Star(Cls({"'", "<prime>"}, {"s"})),
           Grp(6, Cls({"E", "W"}, {})) >>)

\* gps_extractor.py:54  type decimal_dir_separate, priority 7
pattern_decimal_dir_separate ==
    Cat(<< Grp(1, Cls({"N", "S"}, {})),
           Star(Space),
           Grp(2, Cat(<<Opt(Cls({"+", "-"}, {})), Rep(1, 2, Digit), Opt(Str(<<".">>)), Rep(0, 8, Digit)>>)),
           Opt(DegSymSpaces),
           Opt(Str(<<",">>)),
           Star(Space),
           Grp(3, Cls({"E", "W"}, {})),
           Star(Space),
           Grp(4, Cat(<<Opt(Cls({"+", "-"}, {})), Rep(1, 3, Digit), Opt(Str(<<".">>)), Rep(0, 8, Digit)>>)),
           Opt(DegSymSpaces) >>)

\* gps_extractor.py:59  type decimal_dir_attached, priority 7
pattern_decimal_dir_attached ==
    Cat(<< Grp(1, Cat(<<Opt(Cls({"+", "-"}, {})), Rep(1, 2, Digit), Opt(Str(<<".">>)), Rep(0, 8, Digit)>>)),
           Opt(DegSymSpaces),
           Grp(2, Cls({"N", "S"}, {})),
           Star(Space),
           Opt(Str(<<",">>)),
           Star(Space),
           Grp(3, Cat(<<Opt(Cls({"+", "-"}, {})), Rep(1, 3, Digit), Opt(Str(<<".">>)), Rep(0, 8, Digit)>>)),
           Opt(DegSymSpaces),
           Grp(4, Cls({"E", "W"}, {})) >>)

\* gps_extractor.py:66  type pure_decimal, priority 5
pattern_pure_decimal ==
    Cat(<< Grp(1, Cat(<<Opt(Cls({"+", "-"}, {})), Rep(1, 2, Digit), Str(<<".">>), Rep(4, 8, Digit)>>)),
           Opt(DegSymSpaces),
           Opt(Str(<<",">>)),
           Star(Space),
           Grp(2, Cat(<<Opt(Cls({"+", "-"}, {})), Rep(1, 3, Digit), Str(<<".">>), Rep(4, 8, Digit)>>)),
           Opt(DegSymSpaces) >>)

\* gps_extractor.py:73  type dms_spaced, priority 8
pattern_dms_spaced ==
    Cat(<< Grp(1, Cls({"N", "S"}, {})),
           Star(Space),
           Grp(2, Rep(1, 2, Digit)),
           Star(Space),
           Cls({"<deg>", "<ord>", "<ring>", "o"}, {}),
           Star(Space),
           Grp(3, Rep(1, 2, Digit)),
           Star(Space),
           Cls({"<prime>", "'"}, {}),
           Star(Space),
           Grp(4, Cat(<<Rep(1, 2, Digit), Str(<<".">>), Plus(Digit)>>)),
           Star(Space),
           Cls({"<dprime>", "\""}, {}),
           Star(Space),
           Grp(5, Cls({"E", "W"}, {})),
           Star(Space),
           Grp(6, Rep(1, 3, Digit)),
           Star(Space),
           Cls({"<deg>", "<ord>", "<ring>", "o"}, {}),
           Star(Space),
           Grp(7, Rep(1, 2, Digit)),
           Star(Space),
           Cls({"<prime>", "'"}, {}),
           Star(Space),
           Grp(8, Cat(<<Rep(1, 2, Digit), Str(<<".">>), Plus(Digit)>>)),
           Star(Space),
           Cls({"<dprime>", "\""}, {}) >>)

\* gps_extractor.py:78  type dms_spaced_reversed, priority 8
pattern_dms_spaced_reversed ==
    Cat(<< Grp(1, Rep(1, 2, Digit)),
           Star(Space),
           Cls({"<deg>", "<ord>", "<ring>", "o"}, {}),
           Star(Space),
           Grp(2, Rep(1, 2, Digit)),
           Star(Space),
           Cls({"<prime>", "'"}, {}),
           Star(Space),
           Grp(3, Cat(<<Rep(1, 2, Digit), Str(<<".">>), Plus(Digit)>>)),
           Star(Space),
           Cls({"<dprime>", "\""}, {}),
           Star(Space),
           Grp(4, Cls({"N", "S"}, {})),
           Star(Space),
           Grp(5, Rep(1, 3, Digit)),
           Star(Space),
           Cls({"<deg>", "<ord>", "<ring>", "o"}, {}),
           Star(Space),
           Grp(6, Rep(1, 2, Digit)),
           Star(Space),
           Cls({"<prime>", "'"}, {}),
           Star(Space),
           Grp(7, Cat(<<Rep(1, 2, Digit), Str(<<".">>), Plus(Digit)>>)),
           Star(Space),
           Cls({"<dprime>", "\""}, {}),
           Star(Space),
           Grp(8, Cls({"E", "W"}, {})) >>)

\* gps_extractor.py:84  type dms_comma_separated, priority 9
pattern_dms_comma_separated ==
    Cat(<< Grp(1, Cls({"N", "S"}, {})),
           Plus(Space),
           Grp(2, Rep(1, 2, Digit)),
           Str(<<"<deg>">>),
           Plus(Space),
           Grp(3, Rep(1, 2, Digit)),
           Str(<<"'">>),
           Plus(Space),
           Grp(4, Cat(<<Rep(1, 2, Digit), Str(<<".">>), Plus(Digit)>>)),
           Str(<<"\"">>),
           Star(Space),
           Str(<<",">>),
           Star(Space),
           Grp(5, Cls({"E", "W"}, {})),
           Plus(Space),
           Grp(6, Rep(1, 3, Digit)),
           Str(<<"<deg>">>),
           Plus(Space),
           Grp(7, Rep(1, 2, Digit)),
           Str(<<"'">>),
           Plus(Space),
           Grp(8, Cat(<<Rep(1, 2, Digit), Str(<<".">>), Plus(Digit)>>)),
           Str(<<"\"">>) >>)

GpsPatternBank ==
    << [pattern |-> Compile(pattern_labeled), priority |-> 10, type |-> "labeled"],
       [pattern |-> Compile(pattern_lat_lon), priority |-> 9, type |-> "lat_lon"],
       [pattern |-> Compile(pattern_dms_dir_first), priority |-> 9, type |-> "dms_dir_first"],
       [pattern |-> Compile(pattern_dms_dir_last), priority |-> 9, type |-> "dms_dir_last"],
       [pattern |-> Compile(pattern_dm_dir_first), priority |-> 8, type |-> "dm_dir_first"],
       [pattern |-> Compile(pattern_dm_dir_last), priority |-> 8, type |-> "dm_dir_last"],
       [pattern |-> Compile(pattern_decimal_dir_separate), priority |-> 7, type |-> "decimal_dir_separate"],
       [pattern |-> Compile(pattern_decimal_dir_attached), priority |-> 7, type |-> "decimal_dir_attached"],
       [pattern |-> Compile(pattern_pure_decimal), priority |-> 5, type |-> "pure_decimal"],
       [pattern |-> Compile(pattern_dms_spaced), priority |-> 8, type |-> "dms_spaced"],
       [pattern |-> Compile(pattern_dms_spaced_reversed), priority |-> 8, type |-> "dms_spaced_reversed"],
       [pattern |-> Compile(pattern_dms_comma_separated), priority |-> 9, type |-> "dms_comma_separated"] >>

\* gps_extractor.py:92-233, one term per line in source order
ExclusionPatternBank ==
    <<
       Compile(Cat(<<Rep(1, 2, Digit), Str(<<":">>), Rep(2, 2, Digit), Str(<<":">>), Rep(2, 2, Digit)>>)),
       Compile(Cat(<<Rep(1, 2, Digit), Str(<<":">>), Rep(2, 2, Digit), Star(Space), Alt(<<Str(<<"A", "M">>), Str(<<"P", "M">>)>>)>>)),
       Compile(Cat(<<Rep(2, 4, Digit), Cls({"-", "/"}, {}), Rep(1, 2, Digit), Cls({"-", "/"}, {}), Rep(1, 2, Digit)>>)),
       Compile(Cat(<<Rep(1, 2, Digit), Str(<<"/">>), Rep(1, 2, Digit), Str(<<"/">>), Rep(2, 4, Digit)>>)),
       Compile(Cat(<<Plus(Cls({"."}, {"d"})), Star(Space), Alt(<<Str(<<"K", "B">>), Str(<<"M", "B">>), Str(<<"G", "B">>), Str(<<"T", "B">>), Str(<<"K", "b", "p", "s">>), Str(<<"M", "b", "p", "s">>), Str(<<"G", "b", "p", "s">>)>>)>>)),
       Compile(Cat(<<Str(<<"$">>), Plus(Cls({",", "."}, {"d"}))>>)),
       Compile(Cat(<<Plus(Cls({"."}, {"d"})), Star(Space), Alt(<<Str(<<"M", "M">>), Str(<<"C", "M">>), Str(<<"M">>), Str(<<"K", "M">>), Str(<<"I", "N">>), Str(<<"F", "T">>), Str(<<"Y", "D">>), Str(<<"M", "I">>)>>)>>)),
       Compile(Cat(<<Plus(Cls({"."}, {"d"})), Star(Space), Alt(<<Str(<<"%">>), Str(<<"P", "E", "R", "C", "E", "N", "T">>), Str(<<"P", "C", "T">>)>>)>>)),
       Compile(Cat(<<Plus(Cls({"."}, {"d"})), Star(Space), Alt(<<Str(<<"V">>), Str(<<"V", "O", "L", "T">>), Str(<<"A">>), Str(<<"A", "M", "P">>), Str(<<"W">>), Str(<<"W", "A", "T", "T">>), Str(<<"O", "H", "M">>)>>)>>)),
       Compile(Cat(<<Str(<<"I", "S", "O">>), Star(Space), Plus(Digit)>>)),
       Compile(Cat(<<Str(<<"F">>), Cls({"/", "\\"}, {}), Plus(Digit)>>)),
       Compile(Cat(<<Plus(Digit), Star(Space), Str(<<"M">>), Alt(<<Str(<<"P">>), Str(<<"E", "G", "A", "P", "I", "X", "E", "L">>), Str(<<"P", "X">>)>>)>>)),
       Compile(Cat(<<Plus(Cls({"."}, {"d"})), Star(Space), Alt(<<Str(<<"<deg>", "C">>), Str(<<"<deg>", "F">>), Str(<<"C", "E", "L", "S", "I", "U", "S">>), Str(<<"F", "A", "H", "R", "E", "N", "H", "E", "I", "T">>), Str(<<"K", "E", "L", "V", "I", "N">>)>>)>>)),
       Compile(Cat(<<Str(<<"S", "E", "R", "I", "A", "L">>), Star(Space), Opt(Cls({":", "#"}, {})), Star(Space), Plus(Cls({"-"}, {"w", "d"}))>>)),
       Compile(Cat(<<Str(<<"M", "O", "D", "E", "L">>), Star(Space), Opt(Cls({":", "#"}, {})), Star(Space), Plus(Cls({"-"}, {"w", "d"}))>>)),
       Compile(Cat(<<Str(<<"V", "E", "R", "S", "I", "O", "N">>), Star(Space), Opt(Cls({":", "#"}, {})), Star(Space), Plus(Cls({"."}, {"w", "d"}))>>)),
       Compile(Cat(<<Str(<<"F", "O", "C", "A", "L">>), Star(Space), Str(<<"L", "E", "N", "G", "T", "H">>), Star(Space), Plus(Cls({"."}, {"d"}))>>)),
       Compile(Cat(<<Str(<<"S", "H", "U", "T", "T", "E", "R">>), Star(Space), Str(<<"S", "P", "E", "E", "D">>), Star(Space), Plus(Cls({"/"}, {"d"}))>>)),
       Compile(Cat(<<Str(<<"A", "P", "E", "R", "T", "U", "R", "E">>), Star(Space), Plus(Cls({"."}, {"d"}))>>)),
       Compile(Cat(<<Str(<<"E", "X", "P", "O", "S", "U", "R", "E">>), Star(Space), Plus(Cls({"."}, {"d"}))>>)),
       Compile(Cat(<<Str(<<"W", "H", "I", "T", "E">>), Star(Space), Str(<<"B", "A", "L", "A", "N", "C", "E">>), Star(Space), Plus(Cls({}, {"w", "d"}))>>)),
       Compile(Cat(<<Str(<<"R", "E", "S", "O", "L", "U", "T", "I", "O", "N">>), Star(Space), Plus(Cls({"."}, {"d"}))>>)),
       Compile(Cat(<<Str(<<"D", "P", "I">>), Star(Space), Plus(Digit)>>)),
       Compile(Cat(<<Str(<<"B", "I", "T", "R", "A", "T", "E">>), Star(Space), Plus(Cls({"."}, {"d"}))>>)),
       Compile(Cat(<<Str(<<"F", "R", "A", "M", "E", "R", "A", "T", "E">>), Star(Space), Plus(Cls({"."}, {"d"}))>>)),
       Compile(Cat(<<Str(<<"B", "I", "T">>), Star(Space), Str(<<"D", "E", "P", "T", "H">>), Star(Space), Plus(Digit)>>)),
       Compile(Cat(<<Str(<<"C", "O", "L", "O", "R">>), Star(Space), Str(<<"S", "P", "A", "C", "E">>), Star(Space), Plus(Cls({}, {"w"}))>>)),
       Compile(Cat(<<Str(<<"C", "H", "A", "N", "N", "E", "L", "S">>), Star(Space), Plus(Digit)>>)),
       Compile(Cat(<<Str(<<"C", "O", "M", "P", "R", "E", "S", "S", "I", "O", "N">>), Star(Space), Plus(Cls({}, {"w", "d"}))>>)),
       Compile(Cat(<<Str(<<"D", "U", "R", "A", "T", "I", "O", "N">>), Star(Space), Plus(Cls({":", "."}, {"d"}))>>)),
       Compile(Cat(<<Str(<<"F", "I", "L", "E">>), Star(Space), Str(<<"S", "I", "Z", "E">>), Star(Space), Plus(Cls({"."}, {"d"}))>>)),
       Compile(Cat(<<Str(<<"A", "S", "P", "E", "C", "T">>), Star(Space), Str(<<"R", "A", "T", "I", "O">>), Star(Space), Plus(Cls({":", "."}, {"d"}))>>)),
       Compile(Cat(<<Str(<<"S", "C", "A", "N">>), Star(Space), Str(<<"T", "Y", "P", "E">>), Star(Space), Plus(Cls({}, {"w"}))>>)),
       Compile(Cat(<<Str(<<"P", "R", "O", "F", "I", "L", "E">>), Star(Space), Plus(Cls({}, {"w", "d"}))>>)),
       Compile(Cat(<<Str(<<"E", "N", "C", "O", "D", "E", "R">>), Star(Space), Plus(Cls({}, {"w", "d"}))>>)),
       Compile(Cat(<<Str(<<"D", "E", "C", "O", "D", "E", "R">>), Star(Space), Plus(Cls({}, {"w", "d"}))>>)),
       Compile(Cat(<<Str(<<"F", "O", "R", "M", "A", "T">>), Star(Space), Plus(Cls({}, {"w", "d"}))>>)),
       Compile(Cat(<<Str(<<"C", "O", "D", "E", "C">>), Star(Space), Plus(Cls({}, {"w", "d"}))>>)),
       Compile(Cat(<<Str(<<"B", "I", "T">>), Star(Space), Str(<<"R", "A", "T", "E">>), Star(Space), Plus(Cls({"."}, {"d"}))>>)),
       Compile(Cat(<<Str(<<"S", "A", "M", "P", "L", "E">>), Star(Space), Str(<<"R", "A", "T", "E">>), Star(Space), Plus(Cls({"."}, {"d"}))>>)),
       Compile(Cat(<<Str(<<"C", "H", "A", "N", "N", "E", "L">>), Star(Space), Plus(Digit)>>)),
       Compile(Cat(<<Str(<<"T", "R", "A", "C", "K">>), Star(Space), Plus(Digit)>>)),
       Compile(Cat(<<Str(<<"S", "T", "R", "E", "A", "M">>), Star(Space), Plus(Digit)>>)),
       Compile(Cat(<<Str(<<"L", "A", "Y", "E", "R">>), Star(Space), Plus(Digit)>>)),
       Compile(Cat(<<Str(<<"P", "I", "X", "E", "L">>), Star(Space), Str(<<"F", "O", "R", "M", "A", "T">>), Star(Space), Plus(Cls({}, {"w", "d"}))>>)),
       Compile(Cat(<<Str(<<"C", "O", "L", "O", "R">>), Star(Space), Str(<<"P", "R", "O", "F", "I", "L", "E">>), Star(Space), Plus(Cls({}, {"w", "d"}))>>)),
       Compile(Cat(<<Str(<<"G", "A", "M", "M", "A">>), Star(Space), Plus(Cls({"."}, {"d"}))>>)),
       Compile(Cat(<<Str(<<"C", "O", "N", "T", "R", "A", "S", "T">>), Star(Space), Plus(Cls({"."}, {"d"}))>>)),
       Compile(Cat(<<Str(<<"B", "R", "I", "G", "H", "T", "N", "E", "S", "S">>), Star(Space), Plus(Cls({"."}, {"d"}))>>)),
       Compile(Cat(<<Str(<<"S", "A", "T", "U", "R", "A", "T", "I", "O", "N">>), Star(Space), Plus(Cls({"."}, {"d"}))>>)),
       Compile(Cat(<<Str(<<"H", "U", "E">>), Star(Space), Plus(Cls({"."}, {"d"}))>>)),
       Compile(Cat(<<Str(<<"S", "H", "A", "R", "P", "N", "E", "S", "S">>), Star(Space), Plus(Cls({"."}, {"d"}))>>)),
       Compile(Cat(<<Str(<<"N", "O", "I", "S", "E">>), Star(Space), Str(<<"R", "E", "D", "U", "C", "T", "I", "O", "N">>), Star(Space), Plus(Cls({"."}, {"d"}))>>)),
       Compile(Cat(<<Str(<<"D", "Y", "N", "A", "M", "I", "C">>), Star(Space), Str(<<"R", "A", "N", "G", "E">>), Star(Space), Plus(Cls({"."}, {"d"}))>>)),
       Compile(Cat(<<Str(<<"E", "X", "P", "O", "S", "U", "R", "E">>), Star(Space), Str(<<"B", "I", "A", "S">>), Star(Space), Plus(Cls({"."}, {"d"}))>>)),
       Compile(Cat(<<Str(<<"F", "L", "A", "S", "H">>), Star(Space), Plus(Cls({}, {"w", "d"}))>>)),
       Compile(Cat(<<Str(<<"L", "E", "N", "S">>), Star(Space), Plus(Cls({}, {"w", "d"}))>>)),
       Compile(Cat(<<Str(<<"F", "I", "L", "T", "E", "R">>), Star(Space), Plus(Cls({}, {"w", "d"}))>>)),
       Compile(Cat(<<Str(<<"P", "R", "E", "S", "E", "T">>), Star(Space), Plus(Cls({}, {"w", "d"}))>>)),
       Compile(Cat(<<Str(<<"P", "R", "E", "S", "S", "U", "R", "E">>), Star(Space), Plus(Cls({"."}, {"d"}))>>)),
       Compile(Cat(<<Str(<<"H", "U", "M", "I", "D", "I", "T", "Y">>), Star(Space), Plus(Cls({"."}, {"d"}))>>)),
       Compile(Cat(<<Str(<<"W", "I", "N", "D">>), Star(Space), Str(<<"S", "P", "E", "E", "D">>), Star(Space), Plus(Cls({"."}, {"d"}))>>)),
       Compile(Cat(<<Str(<<"A", "L", "T", "I", "T", "U", "D", "E">>), Star(Space), Plus(Cls({"."}, {"d"}))>>)),
       Compile(Cat(<<Str(<<"D", "E", "P", "T", "H">>), Star(Space), Plus(Cls({"."}, {"d"}))>>)),
       Compile(Cat(<<Str(<<"W", "E", "I", "G", "H", "T">>), Star(Space), Plus(Cls({"."}, {"d"}))>>)),
       Compile(Cat(<<Str(<<"V", "O", "L", "U", "M", "E">>), Star(Space), Plus(Cls({"."}, {"d"}))>>)),
       Compile(Cat(<<Str(<<"A", "R", "E", "A">>), Star(Space), Plus(Cls({"."}, {"d"}))>>)),
       Compile(Cat(<<Str(<<"D", "E", "N", "S", "I", "T", "Y">>), Star(Space), Plus(Cls({"."}, {"d"}))>>)),
       Compile(Cat(<<Str(<<"V", "I", "S", "C", "O", "S", "I", "T", "Y">>), Star(Space), Plus(Cls({"."}, {"d"}))>>)),
       Compile(Cat(<<Str(<<"V", "E", "L", "O", "C", "I", "T", "Y">>), Star(Space), Plus(Cls({"."}, {"d"}))>>)),
       Compile(Cat(<<Str(<<"A", "C", "C", "E", "L", "E", "R", "A", "T", "I", "O", "N">>), Star(Space), Plus(Cls({"."}, {"d"}))>>)),
       Compile(Cat(<<Str(<<"F", "O", "R", "C", "E">>), Star(Space), Plus(Cls({"."}, {"d"}))>>)),
       Compile(Cat(<<Str(<<"E", "N", "E", "R", "G", "Y">>), Star(Space), Plus(Cls({"."}, {"d"}))>>)),
       Compile(Cat(<<Str(<<"P", "O", "W", "E", "R">>), Star(Space), Plus(Cls({"."}, {"d"}))>>)),
       Compile(Cat(<<Str(<<"F", "R", "E", "Q", "U", "E", "N", "C", "Y">>), Star(Space), Plus(Cls({"."}, {"d"}))>>)),
       Compile(Cat(<<Str(<<"W", "A", "V", "E", "L", "E", "N", "G", "T", "H">>), Star(Space), Plus(Cls({"."}, {"d"}))>>)),
       Compile(Cat(<<Str(<<"I", "N", "T", "E", "N", "S", "I", "T", "Y">>), Star(Space), Plus(Cls({"."}, {"d"}))>>)),
       Compile(Cat(<<Str(<<"L", "U", "M", "I", "N", "A", "N", "C", "E">>), Star(Space), Plus(Cls({"."}, {"d"}))>>)),
       Compile(Cat(<<Str(<<"I", "L", "L", "U", "M", "I", "N", "A", "N", "C", "E">>), Star(Space), Plus(Cls({"."}, {"d"}))>>)),
       Compile(Cat(<<Str(<<"R", "A", "D", "I", "A", "N", "C", "E">>), Star(Space), Plus(Cls({"."}, {"d"}))>>)),
       Compile(Cat(<<Str(<<"I", "R", "R", "A", "D", "I", "A", "N", "C", "E">>), Star(Space), Plus(Cls({"."}, {"d"}))>>)),
       Compile(Cat(<<Str(<<"F", "L", "U", "X">>), Star(Space), Plus(Cls({"."}, {"d"}))>>)),
       Compile(Cat(<<Str(<<"L", "U", "M", "I", "N", "O", "U", "S">>), Star(Space), Str(<<"F", "L", "U", "X">>), Star(Space), Plus(Cls({"."}, {"d"}))>>)),
       Compile(Cat(<<Str(<<"L", "U", "M", "I", "N", "O", "U", "S">>), Star(Space), Str(<<"I", "N", "T", "E", "N", "S", "I", "T", "Y">>), Star(Space), Plus(Cls({"."}, {"d"}))>>)),
       Compile(Cat(<<Str(<<"L", "U", "M", "I", "N", "O", "U", "S">>), Star(Space), Str(<<"E", "M", "I", "T", "T", "A", "N", "C", "E">>), Star(Space), Plus(Cls({"."}, {"d"}))>>)),
       Compile(Cat(<<Str(<<"L", "U", "M", "I", "N", "O", "U", "S">>), Star(Space), Str(<<"E", "X", "P", "O", "S", "U", "R", "E">>), Star(Space), Plus(Cls({"."}, {"d"}))>>)),
       Compile(Cat(<<Str(<<"L", "U", "M", "I", "N", "O", "U", "S">>), Star(Space), Str(<<"E", "N", "E", "R", "G", "Y">>), Star(Space), Plus(Cls({"."}, {"d"}))>>)),
       Compile(Cat(<<Str(<<"L", "U", "M", "I", "N", "O", "U", "S">>), Star(Space), Str(<<"E", "F", "F", "I", "C", "A", "C", "Y">>), Star(Space), Plus(Cls({"."}, {"d"}))>>)),
       Compile(Cat(<<Str(<<"L", "U", "M", "I", "N", "O", "U", "S">>), Star(Space), Str(<<"E", "F", "F", "I", "C", "I", "E", "N", "C", "Y">>), Star(Space), Plus(Cls({"."}, {"d"}))>>)),
       Compile(Cat(<<Str(<<"S", "P", "E", "C", "T", "R", "A", "L">>), Star(Space), Str(<<"P", "O", "W", "E", "R">>), Star(Space), Plus(Cls({"."}, {"d"}))>>)),
       Compile(Cat(<<Str(<<"S", "P", "E", "C", "T", "R", "A", "L">>), Star(Space), Str(<<"E", "N", "E", "R", "G", "Y">>), Star(Space), Plus(Cls({"."}, {"d"}))>>)),
       Compile(Cat(<<Str(<<"S", "P", "E", "C", "T", "R", "A", "L">>), Star(Space), Str(<<"F", "L", "U", "X">>), Star(Space), Plus(Cls({"."}, {"d"}))>>)),
       Compile(Cat(<<Str(<<"S", "P", "E", "C", "T", "R", "A", "L">>), Star(Space), Str(<<"I", "N", "T", "E", "N", "S", "I", "T", "Y">>), Star(Space), Plus(Cls({"."}, {"d"}))>>)),
       Compile(Cat(<<Str(<<"S", "P", "E", "C", "T", "R", "A", "L">>), Star(Space), Str(<<"R", "A", "D", "I", "A", "N", "C", "E">>), Star(Space), Plus(Cls({"."}, {"d"}))>>)),
       Compile(Cat(<<Str(<<"S", "P", "E", "C", "T", "R", "A", "L">>), Star(Space), Str(<<"I", "R", "R", "A", "D", "I", "A", "N", "C", "E">>), Star(Space), Plus(Cls({"."}, {"d"}))>>)),
       Compile(Cat(<<Str(<<"S", "P", "E", "C", "T", "R", "A", "L">>), Star(Space), Str(<<"E", "M", "I", "T", "T", "A", "N", "C", "E">>), Star(Space), Plus(Cls({"."}, {"d"}))>>)),
       Compile(Cat(<<Str(<<"S", "P", "E", "C", "T", "R", "A", "L">>), Star(Space), Str(<<"E", "X", "P", "O", "S", "U", "R", "E">>), Star(Space), Plus(Cls({"."}, {"d"}))>>)),
       Compile(Cat(<<Str(<<"S", "P", "E", "C", "T", "R", "A", "L">>), Star(Space), Str(<<"L", "U", "M", "I", "N", "A", "N", "C", "E">>), Star(Space), Plus(Cls({"."}, {"d"}))>>)),
       Compile(Cat(<<Str(<<"S", "P", "E", "C", "T", "R", "A", "L">>), Star(Space), Str(<<"I", "L", "L", "U", "M", "I", "N", "A", "N", "C", "E">>), Star(Space), Plus(Cls({"."}, {"d"}))>>)),
       Compile(Cat(<<Str(<<"S", "P", "E", "C", "T", "R", "A", "L">>), Star(Space), Str(<<"L", "U", "M", "I", "N", "O", "U", "S">>), Star(Space), Str(<<"F", "L", "U", "X">>), Star(Space), Plus(Cls({"."}, {"d"}))>>)),
       Compile(Cat(<<Str(<<"S", "P", "E", "C", "T", "R", "A", "L">>), Star(Space), Str(<<"L", "U", "M", "I", "N", "O", "U", "S">>), Star(Space), Str(<<"I", "N", "T", "E", "N", "S", "I", "T", "Y">>), Star(Space), Plus(Cls({"."}, {"d"}))>>)),
       Compile(Cat(<<Str(<<"S", "P", "E", "C", "T", "R", "A", "L">>), Star(Space), Str(<<"L", "U", "M", "I", "N", "O", "U", "S">>), Star(Space), Str(<<"E", "M", "I", "T", "T", "A", "N", "C", "E">>), Star(Space), Plus(Cls({"."}, {"d"}))>>)),
       Compile(Cat(<<Str(<<"S", "P", "E", "C", "T", "R", "A", "L">>), Star(Space), Str(<<"L", "U", "M", "I", "N", "O", "U", "S">>), Star(Space), Str(<<"E", "X", "P", "O", "S", "U", "R", "E">>), Star(Space), Plus(Cls({"."}, {"d"}))>>)),
       Compile(Cat(<<Str(<<"S", "P", "E", "C", "T", "R", "A", "L">>), Star(Space), Str(<<"L", "U", "M", "I", "N", "O", "U", "S">>), Star(Space), Str(<<"E", "N", "E", "R", "G", "Y">>), Star(Space), Plus(Cls({"."}, {"d"}))>>)),
       Compile(Cat(<<Str(<<"S", "P", "E", "C", "T", "R", "A", "L">>), Star(Space), Str(<<"L", "U", "M", "I", "N", "O", "U", "S">>), Star(Space), Str(<<"E", "F", "F", "I", "C", "A", "C", "Y">>), Star(Space), Plus(Cls({"."}, {"d"}))>>)),
       Compile(Cat(<<Str(<<"S", "P", "E", "C", "T", "R", "A", "L">>), Star(Space), Str(<<"L", "U", "M", "I", "N", "O", "U", "S">>), Star(Space), Str(<<"E", "F", "F", "I", "C", "I", "E", "N", "C", "Y">>), Star(Space), Plus(Cls({"."}, {"d"}))>>)),
       Compile(Cat(<<Str(<<"P", "H", "O", "T", "O", "N">>), Star(Space), Str(<<"F", "L", "U", "X">>), Star(Space), Plus(Cls({"."}, {"d"}))>>)),
       Compile(Cat(<<Str(<<"P", "H", "O", "T", "O", "N">>), Star(Space), Str(<<"I", "N", "T", "E", "N", "S", "I", "T", "Y">>), Star(Space), Plus(Cls({"."}, {"d"}))>>)),
       Compile(Cat(<<Str(<<"P", "H", "O", "T", "O", "N">>), Star(Space), Str(<<"R", "A", "D", "I", "A", "N", "C", "E">>), Star(Space), Plus(Cls({"."}, {"d"}))>>)),
       Compile(Cat(<<Str(<<"P", "H", "O", "T", "O", "N">>), Star(Space), Str(<<"I", "R", "R", "A", "D", "I", "A", "N", "C", "E">>), Star(Space), Plus(Cls({"."}, {"d"}))>>)),
       Compile(Cat(<<Str(<<"P", "H", "O", "T", "O", "N">>), Star(Space), Str(<<"E", "M", "I", "T", "T", "A", "N", "C", "E">>), Star(Space), Plus(Cls({"."}, {"d"}))>>)),
       Compile(Cat(<<Str(<<"P", "H", "O", "T", "O", "N">>), Star(Space), Str(<<"E", "X", "P", "O", "S", "U", "R", "E">>), Star(Space), Plus(Cls({"."}, {"d"}))>>)),
       Compile(Cat(<<Str(<<"P", "H", "O", "T", "O", "N">>), Star(Space), Str(<<"E", "N", "E", "R", "G", "Y">>), Star(Space), Plus(Cls({"."}, {"d"}))>>)),
       Compile(Cat(<<Str(<<"P", "H", "O", "T", "O", "N">>), Star(Space), Str(<<"E", "F", "F", "I", "C", "A", "C", "Y">>), Star(Space), Plus(Cls({"."}, {"d"}))>>)),
       Compile(Cat(<<Str(<<"P", "H", "O", "T", "O", "N">>), Star(Space), Str(<<"E", "F", "F", "I", "C", "I", "E", "N", "C", "Y">>), Star(Space), Plus(Cls({"."}, {"d"}))>>)),
       Compile(Cat(<<Str(<<"Q", "U", "A", "N", "T", "U", "M">>), Star(Space), Str(<<"F", "L", "U", "X">>), Star(Space), Plus(Cls({"."}, {"d"}))>>)),
       Compile(Cat(<<Str(<<"Q", "U", "A", "N", "T", "U", "M">>), Star(Space), Str(<<"I", "N", "T", "E", "N", "S", "I", "T", "Y">>), Star(Space), Plus(Cls({"."}, {"d"}))>>)),
       Compile(Cat(<<Str(<<"Q", "U", "A", "N", "T", "U", "M">>), Star(Space), Str(<<"R", "A", "D", "I", "A", "N", "C", "E">>), Star(Space), Plus(Cls({"."}, {"d"}))>>)),
       Compile(Cat(<<Str(<<"Q", "U", "A", "N", "T", "U", "M">>), Star(Space), Str(<<"I", "R", "R", "A", "D", "I", "A", "N", "C", "E">>), Star(Space), Plus(Cls({"."}, {"d"}))>>)),
       Compile(Cat(<<Str(<<"Q", "U", "A", "N", "T", "U", "M">>), Star(Space), Str(<<"E", "M", "I", "T", "T", "A", "N", "C", "E">>), Star(Space), Plus(Cls({"."}, {"d"}))>>)),
       Compile(Cat(<<Str(<<"Q", "U", "A", "N", "T", "U", "M">>), Star(Space), Str(<<"E", "X", "P", "O", "S", "U", "R", "E">>), Star(Space), Plus(Cls({"."}, {"d"}))>>)),
       Compile(Cat(<<Str(<<"Q", "U", "A", "N", "T", "U", "M">>), Star(Space), Str(<<"E", "N", "E", "R", "G", "Y">>), Star(Space), Plus(Cls({"."}, {"d"}))>>)),
       Compile(Cat(<<Str(<<"Q", "U", "A", "N", "T", "U", "M">>), Star(Space), Str(<<"E", "F", "F", "I", "C", "A", "C", "Y">>), Star(Space), Plus(Cls({"."}, {"d"}))>>)),
       Compile(Cat(<<Str(<<"Q", "U", "A", "N", "T", "U", "M">>), Star(Space), Str(<<"E", "F", "F", "I", "C", "I", "E", "N", "C", "Y">>), Star(Space), Plus(Cls({"."}, {"d"}))>>)),
       Compile(Cat(<<Str(<<"R", "A", "D", "I", "O", "M", "E", "T", "R", "I", "C">>), Star(Space), Str(<<"F", "L", "U", "X">>), Star(Space), Plus(Cls({"."}, {"d"}))>>)),
       Compile(Cat(<<Str(<<"R", "A", "D", "I", "O", "M", "E", "T", "R", "I", "C">>), Star(Space), Str(<<"I", "N", "T", "E", "N", "S", "I", "T", "Y">>), Star(Space), Plus(Cls({"."}, {"d"}))>>)),
       Compile(Cat(<<Str(<<"R", "A", "D", "I", "O", "M", "E", "T", "R", "I", "C">>), Star(Space), Str(<<"R", "A", "D", "I", "A", "N", "C", "E">>), Star(Space), Plus(Cls({"."}, {"d"}))>>)),
       Compile(Cat(<<Str(<<"R", "A", "D", "I", "O", "M", "E", "T", "R", "I", "C">>), Star(Space), Str(<<"I", "R", "R", "A", "D", "I", "A", "N", "C", "E">>), Star(Space), Plus(Cls({"."}, {"d"}))>>)),
       Compile(Cat(<<Str(<<"R", "A", "D", "I", "O", "M", "E", "T", "R", "I", "C">>), Star(Space), Str(<<"E", "M", "I", "T", "T", "A", "N", "C", "E">>), Star(Space), Plus(Cls({"."}, {"d"}))>>)),
       Compile(Cat(<<Str(<<"R", "A", "D", "I", "O", "M", "E", "T", "R", "I", "C">>), Star(Space), Str(<<"E", "X", "P", "O", "S", "U", "R", "E">>), Star(Space), Plus(Cls({"."}, {"d"}))>>)),
       Compile(Cat(<<Str(<<"R", "A", "D", "I", "O", "M", "E", "T", "R", "I", "C">>), Star(Space), Str(<<"E", "N", "E", "R", "G", "Y">>), Star(Space), Plus(Cls({"."}, {"d"}))>>)),
       Compile(Cat(<<Str(<<"R", "A", "D", "I", "O", "M", "E", "T", "R", "I", "C">>), Star(Space), Str(<<"E", "F", "F", "I", "C", "A", "C", "Y">>), Star(Space), Plus(Cls({"."}, {"d"}))>>)),
       Compile(Cat(<<Str(<<"R", "A", "D", "I", "O", "M", "E", "T", "R", "I", "C">>), Star(Space), Str(<<"E", "F", "F", "I", "C", "I", "E", "N", "C", "Y">>), Star(Space), Plus(Cls({"."}, {"d"}))>>)),
       Compile(Cat(<<Str(<<"P", "H", "O", "T", "O", "M", "E", "T", "R", "I", "C">>), Star(Space), Str(<<"F", "L", "U", "X">>), Star(Space), Plus(Cls({"."}, {"d"}))>>)),
       Compile(Cat(<<Str(<<"P", "H", "O", "T", "O", "M", "E", "T", "R", "I", "C">>), Star(Space), Str(<<"I", "N", "T", "E", "N", "S", "I", "T", "Y">>), Star(Space), Plus(Cls({"."}, {"d"}))>>)),
       Compile(Cat(<<Str(<<"P", "H", "O", "T", "O", "M", "E", "T", "R", "I", "C">>), Star(Space), Str(<<"R", "A", "D", "I", "A", "N", "C", "E">>), Star(Space), Plus(Cls({"."}, {"d"}))>>)),
       Compile(Cat(<<Str(<<"P", "H", "O", "T", "O", "M", "E", "T", "R", "I", "C">>), Star(Space), Str(<<"I", "R", "R", "A", "D", "I", "A", "N", "C", "E">>), Star(Space), Plus(Cls({"."}, {"d"}))>>)),
       Compile(Cat(<<Str(<<"P", "H", "O", "T", "O", "M", "E", "T", "R", "I", "C">>), Star(Space), Str(<<"E", "M", "I", "T", "T", "A", "N", "C", "E">>), Star(Space), Plus(Cls({"."}, {"d"}))>>)),
       Compile(Cat(<<Str(<<"P", "H", "O", "T", "O", "M", "E", "T", "R", "I", "C">>), Star(Space), Str(<<"E", "X", "P", "O", "S", "U", "R", "E">>), Star(Space), Plus(Cls({"."}, {"d"}))>>)),
       Compile(Cat(<<Str(<<"P", "H", "O", "T", "O", "M", "E", "T", "R", "I", "C">>), Star(Space), Str(<<"E", "N", "E", "R", "G", "Y">>), Star(Space), Plus(Cls({"."}, {"d"}))>>)),
       Compile(Cat(<<Str(<<"P", "H", "O", "T", "O", "M", "E", "T", "R", "I", "C">>), Star(Space), Str(<<"E", "F", "F", "I", "C", "A", "C", "Y">>), Star(Space), Plus(Cls({"."}, {"d"}))>>)),
       Compile(Cat(<<Str(<<"P", "H", "O", "T", "O", "M", "E", "T", "R", "I", "C">>), Star(Space), Str(<<"E", "F", "F", "I", "C", "I", "E", "N", "C", "Y">>), Star(Space), Plus(Cls({"."}, {"d"}))>>))
    >>

-----------------------------------------------------------------------------
(* Numbers *)

FracDen == 3600000
MaxFracDigits == 5

Num(neg, ip, fn) == [neg |-> neg, ip |-> ip, fn |-> fn]
IntNum(n) == IF n < 0 THEN Num(TRUE, -n, 0) ELSE Num(FALSE, n, 0)

Pow10(k) == CASE k = 0 -> 1 [] k = 1 -> 10 [] k = 2 -> 100 [] k = 3 -> 1000
              [] k = 4 -> 10000 [] k = 5 -> 100000

RECURSIVE DigitsToInt(_)
DigitsToInt(ds) == IF ds = <<>> THEN 0
                   ELSE 10 * DigitsToInt(SubSeq(ds, 1, Len(ds) - 1)) + DigitValue(ds[Len(ds)])

\* float(s) for a captured numeral [+-]digits[.[digits]]; fraction digits
\* beyond MaxFracDigits are outside the modelled precision and dropped
float(s) ==
    LET signed == s # <<>> /\ s[1] \in {"+", "-"}
        body == IF signed THEN Tail(s) ELSE s
        dots == {i \in 1..Len(body) : body[i] = "."}
        dot == IF dots = {} THEN Len(body) + 1 ELSE CHOOSE i \in dots : TRUE
        whole == SubSeq(body, 1, dot - 1)
        allfrac == SubSeq(body, dot + 1, Len(body))
        frac == IF Len(allfrac) > MaxFracDigits
                THEN SubSeq(allfrac, 1, MaxFracDigits) ELSE allfrac
    IN Num(signed /\ s[1] = "-",
           DigitsToInt(whole),
           DigitsToInt(frac) * (FracDen \div Pow10(Len(frac))))

IsZero(v) == v.ip = 0 /\ v.fn = 0
Sgn(v) == IF IsZero(v) THEN 0 ELSE IF v.neg THEN -1 ELSE 1
MagLt(a, b) == a.ip < b.ip \/ (a.ip = b.ip /\ a.fn < b.fn)
\* a < b
Lt(a, b) == \/ Sgn(a) < Sgn(b)
            \/ Sgn(a) = Sgn(b) /\ Sgn(a) = 1 /\ MagLt(a, b)
            \/ Sgn(a) = Sgn(b) /\ Sgn(a) = -1 /\ MagLt(b, a)
\* a <= b
Le(a, b) == ~Lt(b, a)
\* -v
Neg(v) == [v EXCEPT !.neg = ~v.neg]
\* abs(v)
Abs(v) == [v EXCEPT !.neg = FALSE]
\* v == round(v)
IsIntegral(v) == v.fn = 0

\* a + b for non-negative a, b
Add(a, b) == Num(FALSE, a.ip + b.ip + (a.fn + b.fn) \div FracDen, (a.fn + b.fn) % FracDen)
\* v / d for non-negative v and d in {60, 3600}
Div(v, d) == LET units == v.ip * (FracDen \div d) + v.fn \div d
             IN Num(FALSE, units \div FracDen, units % FracDen)

\* len(str(abs(v)).split('.')[1]): the number of decimals Python prints.
\* A value with a terminating expansion prints it (at least one digit,
\* "14.0"); any other value prints about 16 significant digits.
DecimalQuot == <<360000, 36000, 3600, 360, 36, 18, 9>>
LongRepr == 14
Decimals(v) ==
    IF \E k \in 1..7 : v.fn % DecimalQuot[k] = 0
    THEN CHOOSE k \in 1..7 : /\ v.fn % DecimalQuot[k] = 0
                             /\ \A j \in 1..(k - 1) : v.fn % DecimalQuot[j] # 0
    ELSE LongRepr

-----------------------------------------------------------------------------
(* GPSExtractor *)

None == <<>>
Some(x) == <<x>>

\* seconds divided by 60 instead of 3600
_dms_to_decimal_seconds_as_minutes(degrees, minutes, seconds) ==
    Add(Add(degrees, Div(minutes, 60)), Div(seconds, 60))

_dms_to_decimal(degrees, minutes, seconds) ==
    Add(Add(degrees, Div(minutes, 60)), Div(seconds, 3600))

_dm_to_decimal(degrees, minutes) == Add(degrees, Div(minutes, 60))

\* "if groups[k] == 'S': lat = -lat": the comparison is case-sensitive
NegIf(v, m, n, letter, text) == IF Group(m, n, text) = <<letter>> THEN Neg(v) ELSE v

\* The conversions in the try block cannot raise: every group passed to
\* float() is mandatory in its pattern and matches a float literal.
_parse_match(m, pattern_info, text) ==
    LET F(n) == float(Group(m, n, text))
        ty == pattern_info.type
        whole == upper(Group0(m, text))
        made(lat, lon) == Some([latitude |-> lat, longitude |-> lon,
                                source_text |-> strip(Group0(m, text))])
    IN CASE ty = "labeled" -> made(F(1), F(2))
         [] ty = "lat_lon" ->
              LET lat == F(1)
                  lon == F(3)
                  lat_dir == IF GroupIsNone(m, 2) THEN None ELSE Some(Group(m, 2, text))
                  lon_dir == IF GroupIsNone(m, 4) THEN None ELSE Some(Group(m, 4, text))
                  flip_lat == \/ lat_dir = Some(<<"S">>)
                              \/ lat_dir = None /\ Lt(IntNum(0), lat) /\ Contains(whole, <<"S">>)
                  flip_lon == \/ lon_dir = Some(<<"W">>)
                              \/ lon_dir = None /\ Lt(IntNum(0), lon) /\ Contains(whole, <<"W">>)
              IN made(IF flip_lat THEN Neg(lat) ELSE lat,
                      IF flip_lon THEN Neg(lon) ELSE lon)
         [] ty \in {"dms_dir_first", "dms_comma_separated"} ->
              made(NegIf(_dms_to_decimal(F(2), F(3), F(4)), m, 1, "S", text),
                   NegIf(_dms_to_decimal(F(6), F(7), F(8)), m, 5, "W", text))
         [] ty = "dms_dir_last" ->
              made(NegIf(_dms_to_decimal(F(1), F(2), F(3)), m, 4, "S", text),
                   NegIf(_dms_to_decimal(F(5), F(6), F(7)), m, 8, "W", text))
         [] ty = "dm_dir_first" ->
              made(NegIf(_dm_to_decimal(F(2), F(3)), m, 1, "S", text),
                   NegIf(_dm_to_decimal(F(5), F(6)), m, 4, "W", text))
         [] ty = "dm_dir_last" ->
              made(NegIf(_dm_to_decimal(F(1), F(2)), m, 3, "S", text),
                   NegIf(_dm_to_decimal(F(4), F(5)), m, 6, "W", text))
         [] ty = "decimal_dir_separate" ->
              made(NegIf(F(2), m, 1, "S", text), NegIf(F(4), m, 3, "W", text))
         [] ty = "decimal_dir_attached" ->
              made(NegIf(F(1), m, 2, "S", text), NegIf(F(3), m, 4, "W", text))
         [] ty = "pure_decimal" -> made(F(1), F(2))
         [] OTHER -> None

gps_keywords == << <<"G","P","S">>, <<"C","O","O","R","D">>, <<"L","A","T">>, <<"L","a","t">>,
                   <<"L","O","N">>, <<"L","o","n","g">>,
                   <<"L","A","T","I","T","U","D","E">>, <<"L","O","N","G","I","T","U","D","E">>,
                   <<"M","A","P">>, <<"L","O","C","A","T","I","O","N">>,
                   <<"P","O","S","I","T","I","O","N">> >>

AnyIn(words, text) == \E k \in 1..Len(words) : Contains(text, words[k])

is_false_positive(text, exclusions) ==
    LET text_upper == strip(upper(text))
        subject == Subject(text_upper)
    IN IF AnyIn(gps_keywords, text_upper) THEN FALSE
       ELSE IF \E k \in 1..Len(exclusions) : search(exclusions[k], subject) THEN TRUE
       ELSE IF /\ Contains(text, <<":">>)
               /\ ~AnyIn(<< <<"L","A","T">>, <<"L","O","N">>, <<"G","P","S">> >>, text)
            THEN TRUE
       ELSE IF /\ SplitCount(text) > 5
               /\ ~AnyIn(<< <<"<deg>">>, <<"<ord>">>, <<"d","e","g">>, <<"'">>, <<"\"">> >>, text)
            THEN TRUE
       ELSE FALSE

\* the range check with the upper longitude bound forgotten
InRangeNoLonMax(lat, lon) ==
    Le(IntNum(-90), lat) /\ Le(lat, IntNum(90)) /\ Le(IntNum(-180), lon)

\* "-90 <= lat <= 90 and -180 <= lon <= 180"
InRange(lat, lon) ==
    Le(IntNum(-90), lat) /\ Le(lat, IntNum(90)) /\ Le(IntNum(-180), lon) /\ Le(lon, IntNum(180))

\* validation reduced to the range check and the exclusion bank
validate_range_and_exclusions(lat, lon, source_text, exclusions) ==
    InRange(lat, lon) /\ ~is_false_positive(source_text, exclusions)

\* the Antarctic rule left out
antarctica_accepted(lat, source_text) == FALSE

\* "lat < -60 and 'ANTARCTIC' not in source_text.upper()"
in_antarctica_unmentioned(lat, source_text) ==
    /\ Lt(lat, IntNum(-60))
    /\ ~Contains(upper(source_text), <<"A","N","T","A","R","C","T","I","C">>)

validate_gps_coordinates(lat, lon, source_text, exclusions) ==
    LET src_upper == upper(source_text)
        lat_decimals == Decimals(Abs(lat))
        lon_decimals == Decimals(Abs(lon))
        has_gps_context ==
            AnyIn(<< <<"N">>, <<"S">>, <<"E">>, <<"W">>, <<"G","P","S">>, <<"L","A","T">>,
                     <<"L","O","N">>, <<"C","O","O","R","D">> >>, src_upper)
    IN IF ~InRange(lat, lon) THEN FALSE
       ELSE IF is_false_positive(source_text, exclusions) THEN FALSE
       ELSE IF /\ IsIntegral(lat) /\ IsIntegral(lon)
               /\ Lt(Abs(lat), IntNum(10)) /\ Lt(Abs(lon), IntNum(10))
            THEN FALSE
       ELSE IF IsZero(lat) /\ IsZero(lon) THEN FALSE
       ELSE IF ~has_gps_context /\ (lat_decimals < 4 \/ lon_decimals < 4) THEN FALSE
       ELSE IF has_gps_context /\ (lat_decimals < 2 \/ lon_decimals < 2) THEN FALSE
       ELSE IF /\ Lt(IntNum(-30), lat) /\ Lt(lat, IntNum(30))
               /\ Lt(IntNum(-30), lon) /\ Lt(lon, IntNum(30))
               /\ ~AnyIn(<< <<"G","P","S">>, <<"C","O","O","R","D">> >>, src_upper)
            THEN FALSE
       ELSE IF in_antarctica_unmentioned(lat, source_text) THEN FALSE
       ELSE TRUE

\* the labels with each threshold taken strictly
_calculate_confidence_strict(candidate) ==
    IF candidate.priority > 9 THEN "HIGH"
    ELSE IF candidate.priority > 7 THEN "MEDIUM-HIGH"
    ELSE IF candidate.priority > 5 THEN "MEDIUM"
    ELSE "LOW"

_calculate_confidence(candidate) ==
    IF candidate.priority >= 9 THEN "HIGH"
    ELSE IF candidate.priority >= 7 THEN "MEDIUM-HIGH"
    ELSE IF candidate.priority >= 5 THEN "MEDIUM"
    ELSE "LOW"

RECURSIVE InsertByPriority(_, _)
InsertByPriority(sorted, p) ==
    IF sorted = <<>> THEN <<p>>
    ELSE IF Head(sorted).priority >= p.priority
         THEN <<Head(sorted)>> \o InsertByPriority(Tail(sorted), p)
         ELSE <<p>> \o sorted

RECURSIVE SortedByPriority(_)
\* sorted(bank, key=priority, reverse=True): stable
SortedByPriority(bank) ==
    IF bank = <<>> THEN <<>>
    ELSE InsertByPriority(SortedByPriority(SubSeq(bank, 1, Len(bank) - 1)), bank[Len(bank)])

RECURSIVE ParseMatches(_, _, _)
\* "for match in matches: result = self._parse_match(match, pattern_info)"
ParseMatches(ms, pattern_info, text) ==
    IF ms = <<>> THEN <<>>
    ELSE <<[parsed |-> _parse_match(Head(ms), pattern_info, text),
            priority |-> pattern_info.priority, type |-> pattern_info.type]>>
         \o ParseMatches(Tail(ms), pattern_info, text)

RECURSIVE ParseRules(_, _, _)
\* the entries of the rules in turn; the list of rules is split in halves so
\* that the nesting of the evaluation grows with the logarithm of its length
ParseRules(rules, text, subject) ==
    IF rules = <<>> THEN <<>>
    ELSE IF Len(rules) = 1
    THEN ParseMatches(finditer(rules[1].pattern, subject), rules[1], text)
    ELSE LET half == Len(rules) \div 2
         IN ParseRules(SubSeq(rules, 1, half), text, subject)
            \o ParseRules(SubSeq(rules, half + 1, Len(rules)), text, subject)

\* the parse results of every match of every rule, in the order the two
\* nested loops of extract_gps_coordinates visit them
ParseAll(rules, text) == ParseRules(rules, text, Subject(text))

\* "if result and self.validate_gps_coordinates(...)"
IsValidated(entry, exclusions) ==
    /\ entry.parsed # None
    /\ validate_gps_coordinates(entry.parsed[1].latitude, entry.parsed[1].longitude,
                                entry.parsed[1].source_text, exclusions)

\* candidates.append({**result, 'priority': ..., 'type': ...})
CandidateOf(entry) ==
    [latitude |-> entry.parsed[1].latitude, longitude |-> entry.parsed[1].longitude,
     source_text |-> entry.parsed[1].source_text,
     priority |-> entry.priority, type |-> entry.type]

RECURSIVE Validated(_, _)
\* the candidates list: the validated parse results, in order
Validated(entries, exclusions) ==
    IF entries = <<>> THEN <<>>
    ELSE (IF IsValidated(Head(entries), exclusions)
          THEN <<CandidateOf(Head(entries))>> ELSE <<>>)
         \o Validated(Tail(entries), exclusions)

\* the last candidate appended instead of the one of maximal priority
LastCandidate(cands) == cands[Len(cands)]

\* the last candidate of maximal priority instead of the first
LastOfMaxPriority(cands) ==
    cands[CHOOSE i \in 1..Len(cands) :
            /\ \A j \in 1..Len(cands) : cands[j].priority <= cands[i].priority
            /\ \A j \in (i + 1)..Len(cands) : cands[j].priority < cands[i].priority]

\* max(candidates, key=priority): the first candidate of maximal priority
MaxByPriority(cands) ==
    cands[CHOOSE i \in 1..Len(cands) :
            /\ \A j \in 1..Len(cands) : cands[j].priority <= cands[i].priority
            /\ \A j \in 1..(i - 1) : cands[j].priority < cands[i].priority]

\* a default record returned instead of None when nothing was validated
BestOfOrDefault(cands) ==
    IF cands # <<>>
    THEN LET best_candidate == MaxByPriority(cands)
         IN Some([latitude |-> best_candidate.latitude,
                  longitude |-> best_candidate.longitude,
                  source_text |-> best_candidate.source_text,
                  extraction_confidence |-> _calculate_confidence(best_candidate)])
    ELSE Some([latitude |-> IntNum(0), longitude |-> IntNum(0),
               source_text |-> <<>>, extraction_confidence |-> "LOW"])

\* "if candidates: ... return {...}" / "return None"
BestOf(cands) ==
    IF cands # <<>>
    THEN LET best_candidate == MaxByPriority(cands)
         IN Some([latitude |-> best_candidate.latitude,
                  longitude |-> best_candidate.longitude,
                  source_text |-> best_candidate.source_text,
                  extraction_confidence |-> _calculate_confidence(best_candidate)])
    ELSE None

\* cleaned_text and gps_context_score are computed by the source and never used
extract_gps_coordinates(texts, patterns, exclusions) ==
    BestOf(Validated(ParseAll(SortedByPriority(patterns), Join(texts)), exclusions))


-----------------------------------------------------------------------------
(* OCRModelCache: keys, and the threads that call get_model *)

MaxThreads == 2
MaxImages == 2
MaxWorkers == 2
MaxSide == 17
MaxCacheCalls == 4

\* f"{language}_{'gpu' if use_gpu else 'cpu'}": the key is written as the
\* pair of its two parts
model_key(language, use_gpu) == <<language, IF use_gpu THEN "gpu" ELSE "cpu">>

\* two of the languages the window offers
Languages == {"en", "fr"}

ModelKeys == {model_key(language, use_gpu) : language \in Languages, use_gpu \in BOOLEAN}

Threads == 1..MaxThreads
-----------------------------------------------------------------------------
(* Extraction runs: extract_gps_coordinates called on a text list *)

MaxFragments == 2
MaxCalls == 2

\* OCR text fragments the text lists are built from
Fragments ==
    {
      <<"G","P","S",":"," ","1","4",".","5","9","9","5",",">>,        \* [GPS: 14.5995,]
      <<"1","2","0",".","9","8","4","2">>,                            \* [120.9842]
      <<"1","4",".","5","9","9","5",",">>,                            \* [14.5995,]
      <<"G","P","S",":"," ","0",".","0","0","0","0",",">>,            \* [GPS: 0.0000,]
      <<"0",".","0","0","0","0">>,                                    \* [0.0000]
      <<"9","5",".","1","2","3","4",","," ","2","0",".","1","2","3","4">>,  \* [95.1234, 20.1234]
      <<"2","0","0",".","1","2","3","4">>,                            \* [200.1234]
      <<"S"," ","7","5",".","1","2","3","4",",">>,                    \* [S 75.1234,]
      <<"E"," ","1","2","0",".","9","8","4","2">>,                    \* [E 120.9842]
      <<"I","S","O"," ","4","0","0",",">>,                            \* [ISO 400,]
      <<"L","A","T",":"," ","4","0",".","7","1","2","8",",">>,        \* [LAT: 40.7128,]
      <<"L","O","N",":"," ","-","7","4",".","0","0","6","0">>         \* [LON: -74.0060]
    }

\* [GPS: 14.5995, 120.9842]
Input_GpsLabeled ==
    << << "G","P","S",":"," ","1","4",".","5","9","9","5",","," ","1","2","0",".",
          "9","8","4","2" >> >>

\* [LAT: 40.7128 N, LON: 74.0060 W]
Input_LatLonSpaced ==
    << << "L","A","T",":"," ","4","0",".","7","1","2","8"," ","N",","," ","L","O",
          "N",":"," ","7","4",".","0","0","6","0"," ","W" >> >>

\* [N 9<deg> 38' 42.861", E 125<deg> 32' 58.411"]
Input_DmsComma ==
    << << "N"," ","9","<deg>"," ","3","8","'"," ","4","2",".","8","6","1","\"",",",
          " ","E"," ","1","2","5","<deg>"," ","3","2","'"," ","5","8",".","4","1",
          "1","\"" >> >>

\* [ISO 400, F/2.8, 1/125s]
Input_CameraSettings ==
    << << "I","S","O"," ","4","0","0",","," ","F","/","2",".","8",","," ","1","/",
          "1","2","5","s" >> >>

\* [10.3157N 123.8854E] [N 14.5995, E 120.9842]
Input_TwoDirectionRules ==
    << << "1","0",".","3","1","5","7","N"," ","1","2","3",".","8","8","5","4","E" >>,
       << "N"," ","1","4",".","5","9","9","5",","," ","E"," ","1","2","0",".","9","8","4","2" >> >>

\* [GPS: 40.7128, -74.0060] [GPS: 14.5995, 120.9842]
Input_TwoLabeled ==
    << << "G","P","S",":"," ","4","0",".","7","1","2","8",","," ","-","7","4",".","0","0","6","0" >>,
       << "G","P","S",":"," ","1","4",".","5","9","9","5",","," ","1","2","0",".","9","8","4","2" >> >>

\* [14<deg> 35' 58.2" N] [120<deg> 59' 3.1" E]
Input_DmsSpacedReversed ==
    << << "1","4","<deg>"," ","3","5","'"," ","5","8",".","2","\""," ","N" >>,
       << "1","2","0","<deg>"," ","5","9","'"," ","3",".","1","\""," ","E" >> >>

\* [s 33.8688,] [e 151.2093]
Input_LowerCaseDirections ==
    << << "s"," ","3","3",".","8","6","8","8","," >>,
       << "e"," ","1","5","1",".","2","0","9","3" >> >>

\* the examples of the SUPPORTED GPS FORMATS help text (main.py:1091-1096),
\* each as a text list of one fragment
\* [ANTARCTIC S 75.1234, E 120.9842]
Input_AntarcticBefore ==
    << <<"A","N","T","A","R","C","T","I","C"," ","S"," ","7","5",".","1","2","3","4",","," ","E"," ","1","2","0",".","9","8","4","2">> >>

\* [-75.1234, 120.9842] [ANTARCTIC]
Input_AntarcticAfter ==
    << <<"-","7","5",".","1","2","3","4",","," ","1","2","0",".","9","8","4","2">>,
       <<"A","N","T","A","R","C","T","I","C">> >>

\* [GPS: -75.1234, 120.9842 Antarctica]
Input_AntarcticaLabeled ==
    << <<"G","P","S",":"," ","-","7","5",".","1","2","3","4",","," ","1","2","0",".","9","8","4","2"," ","A","n","t","a","r","c","t","i","c","a">> >>

\* [40.7128, -74.0060]
Help_DecimalDegrees ==
    << <<"4","0",".","7","1","2","8",","," ","-","7","4",".","0","0","6","0">> >>

\* [40<deg>42'46"N, 74<deg>00'21"W]
Help_DegreesMinutesSeconds ==
    << <<"4","0","<deg>","4","2","'","4","6","\"","N",","," ","7","4","<deg>","0","0","'","2","1","\"","W">> >>

\* [40<deg>42.767'N, 74<deg>00.350'W]
Help_DegreesDecimalMinutes ==
    << <<"4","0","<deg>","4","2",".","7","6","7","'","N",","," ","7","4","<deg>","0","0",".","3","5","0","'","W">> >>

\* [N40.7128, W74.0060]
Help_DirectionIndicators ==
    << <<"N","4","0",".","7","1","2","8",","," ","W","7","4",".","0","0","6","0">> >>

\* [LAT: 40.7128, LON: -74.0060]
Help_LabeledCoordinates ==
    << <<"L","A","T",":"," ","4","0",".","7","1","2","8",","," ","L","O","N",":"," ","-","7","4",".","0","0","6","0">> >>

\* [GPS: (40.7128, -74.0060)]
Help_GpsTags ==
    << <<"G","P","S",":"," ","(","4","0",".","7","1","2","8",","," ","-","7","4",".","0","0","6","0",")">> >>

HelpExamples ==
    {Help_DecimalDegrees, Help_DegreesMinutesSeconds, Help_DegreesDecimalMinutes,
     Help_DirectionIndicators, Help_LabeledCoordinates, Help_GpsTags}

Examples ==
    {Input_GpsLabeled, Input_LatLonSpaced, Input_DmsComma, Input_CameraSettings,
     Input_TwoDirectionRules, Input_TwoLabeled, Input_DmsSpacedReversed,
     Input_LowerCaseDirections, Input_AntarcticBefore, Input_AntarcticAfter,
     Input_AntarcticaLabeled} \cup HelpExamples

\* a new GPSExtractor, no text passed yet; no detection collected; no
\* coordinate converted; no worker started, the model cache empty, no thread
\* in get_model
Init ==
    /\ text_list = <<>>
    /\ parsed = <<>>
    /\ candidates = <<>>
    /\ result = None
    /\ calls = 0
    /\ gps_patterns = GpsPatternBank
    /\ exclusion_patterns = ExclusionPatternBank
    /\ detections = <<>>
    /\ sorted_detections = <<>>
    /\ merged = <<>>
    /\ phase = "collect"
    /\ position = 1
    /\ coordinates = None
    /\ gps_data = None
    /\ image_paths = <<>>
    /\ use_roi_detection = TRUE
    /\ pc = "idle"
    /\ image = 0
    /\ job = 0
    /\ scan_jobs = <<>>
    /\ roi_results = <<>>
    /\ all_results = <<>>
    /\ merged_results = <<>>
    /\ results = <<>>
    /\ signals = <<>>
    /\ models = [k \in ModelKeys |-> None]
    /\ readers = <<>>
    /\ thread_pc = [t \in Threads |-> "idle"]
    /\ thread_key = [t \in Threads |-> model_key("en", FALSE)]
    /\ thread_model = [t \in Threads |-> None]
    /\ process_btn = TRUE
    /\ selected_files = <<>>
    /\ ocr_workers = <<>>
    /\ events = <<>>
    /\ dialogs = <<>>
    /\ img_array = [height |-> 0, width |-> 0]
    /\ region_list = <<>>
    /\ region_reads = <<>>
    /\ roi = <<>>
    /\ _instance = None
    /\ cache_log = <<>>

\* the caller appends one more recognised fragment to the list
AddFragment ==
    /\ calls = 0
    /\ Len(text_list) < MaxFragments
    /\ \E f \in Fragments : text_list' = Append(text_list, f)
    /\ UNCHANGED <<parsed, candidates, result, calls, gps_patterns, exclusion_patterns>>
    /\ UNCHANGED <<merge_vars, exif_vars, worker_vars, cache_vars, thread_vars, window_vars, regions_vars, sequential_vars>>

\* the caller passes one of the example inputs
LoadExample ==
    /\ calls = 0
    /\ text_list = <<>>
    /\ \E e \in Examples : text_list' = e
    /\ UNCHANGED <<parsed, candidates, result, calls, gps_patterns, exclusion_patterns>>
    /\ UNCHANGED <<merge_vars, exif_vars, worker_vars, cache_vars, thread_vars, window_vars, regions_vars, sequential_vars>>

\* a call that sorts the pattern bank in place (list.sort) instead of
\* iterating over a sorted copy
ExtractSortingInPlace ==
    /\ calls < MaxCalls
    /\ text_list # <<>>
    /\ gps_patterns' = SortedByPriority(gps_patterns)
    /\ parsed' = ParseAll(gps_patterns', Join(text_list))
    /\ candidates' = Validated(parsed', exclusion_patterns)
    /\ result' = BestOf(candidates')
    /\ calls' = calls + 1
    /\ UNCHANGED <<text_list, exclusion_patterns, merge_vars, exif_vars, worker_vars, cache_vars, thread_vars, window_vars, regions_vars, sequential_vars>>

\* one call of extract_gps_coordinates(text_list); parsed and candidates
\* expose the locals of the call
Extract ==
    /\ calls < MaxCalls
    /\ text_list # <<>>
    /\ parsed' = ParseAll(SortedByPriority(gps_patterns), Join(text_list))
    /\ candidates' = Validated(parsed', exclusion_patterns)
    /\ result' = BestOf(candidates')
    /\ calls' = calls + 1
    /\ UNCHANGED <<text_list, gps_patterns, exclusion_patterns, merge_vars, exif_vars, worker_vars, cache_vars, thread_vars, window_vars, regions_vars, sequential_vars>>

Next == AddFragment \/ LoadExample \/ Extract

Spec == Init /\ [][Next]_vars


-----------------------------------------------------------------------------
(* Properties of extract_gps_coordinates *)

\* the decimal ip.dddd with four fraction digits
Decimal4(neg, ip, dddd) == Num(neg, ip, dddd * (FracDen \div 10000))

\* -n <= v <= n
WithinDegrees(v, n) == Le(IntNum(-n), v) /\ Le(v, IntNum(n))

AbsDiff(a, b) == IF a < b THEN b - a ELSE a - b

\* v is positive and within 1e-4 of ip + micro/1000000
Near(v, ip, micro) ==
    ~v.neg /\ v.ip = ip /\ AbsDiff(v.fn * 10, micro * 36) <= 3600

\* a match was parsed to a latitude or longitude outside the valid range
ParsedOutOfRange ==
    \E k \in 1..Len(parsed) :
       /\ parsed[k].parsed # None
       /\ \/ ~WithinDegrees(parsed[k].parsed[1].latitude, 90)
          \/ ~WithinDegrees(parsed[k].parsed[1].longitude, 180)

\* a match preceded by a GPS keyword was parsed to (0, 0)
ParsedOrigin ==
    \E k \in 1..Len(parsed) :
       /\ parsed[k].parsed # None
       /\ IsZero(parsed[k].parsed[1].latitude)
       /\ IsZero(parsed[k].parsed[1].longitude)
       /\ Contains(upper(parsed[k].parsed[1].source_text), <<"G","P","S">>)

\* C1: a returned result has its latitude in [-90, 90] and its longitude in
\* [-180, 180], and so has every candidate eligible for selection.
C1_ResultInRange ==
    /\ result # None =>
          /\ WithinDegrees(result[1].latitude, 90)
          /\ WithinDegrees(result[1].longitude, 180)
    /\ \A k \in 1..Len(candidates) :
          /\ WithinDegrees(candidates[k].latitude, 90)
          /\ WithinDegrees(candidates[k].longitude, 180)

\* a call returned a result although one of its matches was out of range
C1_Witness == calls > 0 /\ result # None /\ ParsedOutOfRange

\* C2: no result has latitude 0 and longitude 0, whichever rule matched and
\* whatever keywords the text holds.
C2_NeverOrigin ==
    result # None => ~(IsZero(result[1].latitude) /\ IsZero(result[1].longitude))

\* a call parsed (0, 0) from a match that carries the GPS keyword
C2_Witness == calls > 0 /\ ParsedOrigin /\ result = None

\* C3: a further call on the same extractor with the same text list returns
\* the result of the call before it, and every call leaves the pattern bank
\* and the exclusion bank as they were.
C3_Idempotent ==
    [][(calls' = calls + 1 /\ text_list' = text_list) =>
          /\ gps_patterns' = gps_patterns
          /\ exclusion_patterns' = exclusion_patterns
          /\ (calls > 0 => result' = result)]_vars

\* two calls were made on a text list that yields a coordinate
C3_Witness == calls >= 2 /\ result # None

\* C4: "GPS: 14.5995, 120.9842" yields latitude 14.5995, longitude 120.9842
\* and confidence HIGH.
C4_GpsLabeled ==
    (text_list = Input_GpsLabeled /\ calls > 0) =>
        /\ result # None
        /\ result[1].latitude = Decimal4(FALSE, 14, 5995)
        /\ result[1].longitude = Decimal4(FALSE, 120, 9842)
        /\ result[1].extraction_confidence = "HIGH"

\* the labeled rule and the bare-decimal rule both produced a candidate
C4_Witness ==
    /\ text_list = Input_GpsLabeled /\ calls > 0
    /\ \E i, j \in 1..Len(candidates) :
          candidates[i].type = "labeled" /\ candidates[j].type = "pure_decimal"

\* C5: "LAT: 40.7128 N, LON: 74.0060 W" yields latitude 40.7128 and
\* longitude -74.0060.
C5_LatLonSpaced ==
    (text_list = Input_LatLonSpaced /\ calls > 0) =>
        /\ result # None
        /\ result[1].latitude = Decimal4(FALSE, 40, 7128)
        /\ result[1].longitude = Decimal4(TRUE, 74, 60)

\* C6: N 9<deg> 38' 42.861", E 125<deg> 32' 58.411" yields a latitude within
\* 1e-4 of 9.645239 and a longitude within 1e-4 of 125.549558, each equal to
\* degrees + minutes/60 + seconds/3600.
C6_DmsComma ==
    (text_list = Input_DmsComma /\ calls > 0) =>
        /\ result # None
        /\ Near(result[1].latitude, 9, 645239)
        /\ Near(result[1].longitude, 125, 549558)
        /\ result[1].latitude = Num(FALSE, 9, 38 * (FracDen \div 60) + 42861 * (FracDen \div 3600000))
        /\ result[1].longitude = Num(FALSE, 125, 32 * (FracDen \div 60) + 58411 * (FracDen \div 3600000))

\* the call on the DMS input returned the dms_comma_separated candidate
C6_Witness ==
    /\ text_list = Input_DmsComma /\ calls > 0 /\ result # None
    /\ \E k \in 1..Len(candidates) : candidates[k].type = "dms_comma_separated"

\* C7: "ISO 400, F/2.8, 1/125s" yields no coordinate.
C7_CameraSettings == (text_list = Input_CameraSettings /\ calls > 0) => result = None

\* the call on the camera-settings input has returned
C7_Witness == text_list = Input_CameraSettings /\ calls > 0 /\ result = None


-----------------------------------------------------------------------------
(* OCRWorker: the detection merge *)

\* a detection (box, text, confidence) as the OCR engine returns it: box is
\* the list of the four corner points, confidence is in hundredths
Detection(box, text, confidence) == [box |-> box, text |-> text, confidence |-> confidence]

Max(S) == CHOOSE x \in S : \A y \in S : y <= x
Min(S) == CHOOSE x \in S : \A y \in S : x <= y
XCoords(box) == {box[k][1] : k \in 1..Len(box)}
YCoords(box) == {box[k][2] : k \in 1..Len(box)}

box_area(box) ==
    (Max(XCoords(box)) - Min(XCoords(box))) * (Max(YCoords(box)) - Min(YCoords(box)))

boxes_intersect(b1, b2) ==
    LET x_overlap == Max({0, Min({Max(XCoords(b1)), Max(XCoords(b2))})
                             - Max({Min(XCoords(b1)), Min(XCoords(b2))})})
        y_overlap == Max({0, Min({Max(YCoords(b1)), Max(YCoords(b2))})
                             - Max({Min(YCoords(b1)), Min(YCoords(b2))})})
    IN x_overlap * y_overlap

\* the comparison with the threshold made inclusive
_boxes_overlap_inclusive(box1, box2) ==
    LET intersection == boxes_intersect(box1, box2)
        union == box_area(box1) + box_area(box2) - intersection
    IN IF union > 0 THEN 2 * intersection >= union ELSE FALSE

\* "(intersection / union) > threshold if union > 0 else False", threshold 0.5
_boxes_overlap(box1, box2) ==
    LET intersection == boxes_intersect(box1, box2)
        union == box_area(box1) + box_area(box2) - intersection
    IN IF union > 0 THEN 2 * intersection > union ELSE FALSE

\* the number of positions at which the two texts hold the same character
Matches(longer, shorter) ==
    Cardinality({k \in 1..Len(shorter) : longer[k] = shorter[k]})

\* the similarity compared with 0.95 instead of 0.8
_text_similar_095(text1, text2) ==
    LET longer == IF Len(text1) > Len(text2) THEN text1 ELSE text2
        shorter == IF Len(text1) > Len(text2) THEN text2 ELSE text1
    IN IF Len(longer) = 0 THEN TRUE
       ELSE 100 * Matches(longer, shorter) > 95 * Len(longer)

\* "(matches / len(longer)) > threshold", threshold 0.8
_text_similar(text1, text2) ==
    LET longer == IF Len(text1) > Len(text2) THEN text1 ELSE text2
        shorter == IF Len(text1) > Len(text2) THEN text2 ELSE text1
    IN IF Len(longer) = 0 THEN TRUE
       ELSE 10 * Matches(longer, shorter) > 8 * Len(longer)

RECURSIVE InsertByConfidence(_, _)
InsertByConfidence(sorted, d) ==
    IF sorted = <<>> THEN <<d>>
    ELSE IF Head(sorted).confidence >= d.confidence
         THEN <<Head(sorted)>> \o InsertByConfidence(Tail(sorted), d)
         ELSE <<d>> \o sorted

\* the detections taken in the order given, without the sort
InGivenOrder(dets) == dets

RECURSIVE SortedByConfidence(_)
\* sorted(detections, key=lambda x: x[2], reverse=True): stable
SortedByConfidence(dets) ==
    IF dets = <<>> THEN <<>>
    ELSE InsertByConfidence(SortedByConfidence(SubSeq(dets, 1, Len(dets) - 1)), dets[Len(dets)])

\* merged.remove(existing): the first entry equal to existing is removed
Remove(list, existing) ==
    LET j == Min({i \in 1..Len(list) : list[i] = existing})
    IN SubSeq(list, 1, j - 1) \o SubSeq(list, j + 1, Len(list))

\* a loop body that replaces the accepted entry by the detection whatever
\* their confidences
MergeOneReplacing(accepted, detection) ==
    LET hits == {k \in 1..Len(accepted) :
                    /\ _boxes_overlap(detection.box, accepted[k].box)
                    /\ _text_similar(detection.text, accepted[k].text)}
    IN IF hits = {} THEN Append(accepted, detection)
       ELSE Append(Remove(accepted, accepted[Min(hits)]), detection)

\* the body of "for detection in sorted_detections": the accepted list after
\* the detection has been compared with the accepted entries in order
MergeOne(accepted, detection) ==
    LET hits == {k \in 1..Len(accepted) :
                    /\ _boxes_overlap(detection.box, accepted[k].box)
                    /\ _text_similar(detection.text, accepted[k].text)}
    IN IF hits = {} THEN Append(accepted, detection)
       ELSE LET existing == accepted[Min(hits)]
            IN IF detection.confidence > existing.confidence
               THEN Append(Remove(accepted, existing), detection)
               ELSE accepted

RECURSIVE MergeLoop(_, _)
MergeLoop(accepted, rest) ==
    IF rest = <<>> THEN accepted
    ELSE MergeLoop(MergeOne(accepted, Head(rest)), Tail(rest))

_merge_detections(dets) ==
    IF dets = <<>> THEN <<>> ELSE MergeLoop(<<>>, SortedByConfidence(dets))

-----------------------------------------------------------------------------
(* Merge runs: _merge_detections called on the detections of one image *)

MaxDetections == 3

\* the four corner points of an axis-aligned box, clockwise from the top left
Rect(x1, y1, x2, y2) == << <<x1, y1>>, <<x2, y1>>, <<x2, y2>>, <<x1, y2>> >>

BoxFull == Rect(0, 0, 4, 2)
BoxHalf == Rect(0, 0, 2, 2)     \* half of BoxFull: overlap ratio exactly 0.5
BoxMost == Rect(1, 0, 4, 2)     \* overlap ratio 0.75 with BoxFull, 0.25 with BoxHalf
BoxPoint == Rect(5, 5, 5, 5)    \* no area
Boxes == {BoxFull, BoxHalf, BoxMost, BoxPoint}

\* [14.5995,120.9842]
Text_Reading == <<"1","4",".","5","9","9","5",",","1","2","0",".","9","8","4","2">>
\* [14.5995,120.9642]
Text_Misreading == <<"1","4",".","5","9","9","5",",","1","2","0",".","9","6","4","2">>

\* the detections the OCR passes may return
DetectionPool ==
    {Detection(b, Text_Reading, 91) : b \in Boxes}
    \cup {Detection(b, Text_Misreading, 60) : b \in Boxes}
    \cup {Detection(BoxFull, <<"A","B","C","D","E">>, 75),
          Detection(BoxMost, <<"A","B","C","D","X">>, 75),
          Detection(BoxFull, <<>>, 60)}

\* all_results.extend(...): an OCR pass returns one more detection
Detect ==
    /\ phase = "collect"
    /\ Len(detections) < MaxDetections
    /\ \E d \in DetectionPool : detections' = Append(detections, d)
    /\ UNCHANGED <<sorted_detections, merged, phase, position, extraction_vars, exif_vars, worker_vars, cache_vars, thread_vars, window_vars, regions_vars, sequential_vars>>

\* _merge_detections(all_results) is called: "if not detections: return []",
\* else the sort and "merged = []"
BeginMerge ==
    /\ phase = "collect"
    /\ IF detections = <<>>
       THEN /\ phase' = "returned"
            /\ UNCHANGED sorted_detections
       ELSE /\ phase' = "loop"
            /\ sorted_detections' = SortedByConfidence(detections)
    /\ merged' = <<>>
    /\ position' = 1
    /\ UNCHANGED <<detections, extraction_vars, exif_vars, worker_vars, cache_vars, thread_vars, window_vars, regions_vars, sequential_vars>>

\* one iteration of "for detection in sorted_detections"
MergeStep ==
    /\ phase = "loop"
    /\ position <= Len(sorted_detections)
    /\ merged' = MergeOne(merged, sorted_detections[position])
    /\ position' = position + 1
    /\ UNCHANGED <<detections, sorted_detections, phase, extraction_vars, exif_vars, worker_vars, cache_vars, thread_vars, window_vars, regions_vars, sequential_vars>>

\* the loop is exhausted: "return merged"
ReturnMerged ==
    /\ phase = "loop"
    /\ position > Len(sorted_detections)
    /\ phase' = "returned"
    /\ UNCHANGED <<detections, sorted_detections, merged, position, extraction_vars, exif_vars, worker_vars, cache_vars, thread_vars, window_vars, regions_vars, sequential_vars>>

NextMerge == Detect \/ BeginMerge \/ MergeStep \/ ReturnMerged

SpecMerge == Init /\ [][NextMerge]_vars

\* the loop computes the function: what is returned is _merge_detections
ReturnsMergeDetections == phase = "returned" => merged = _merge_detections(detections)

-----------------------------------------------------------------------------
(* Properties of the detection merge *)

\* intersection / union of the two axis-aligned boxes exceeds 1/2
OverlapRatioAboveHalf(b1, b2) ==
    LET i == boxes_intersect(b1, b2)
        u == box_area(b1) + box_area(b2) - i
    IN u > 0 /\ 2 * i > u

\* intersection / union of the two axis-aligned boxes is at least 1/2
OverlapRatioAtLeastHalf(b1, b2) ==
    LET i == boxes_intersect(b1, b2)
        u == box_area(b1) + box_area(b2) - i
    IN u > 0 /\ 2 * i >= u

\* the share of the longer text's positions at which both texts agree
\* exceeds 4/5 (two empty texts count as similar)
SimilarityAboveFourFifths(t1, t2) ==
    LET n == IF Len(t1) > Len(t2) THEN Len(t1) ELSE Len(t2)
        m == Cardinality({k \in 1..n : k <= Len(t1) /\ k <= Len(t2) /\ t1[k] = t2[k]})
    IN n = 0 \/ 5 * m > 4 * n

IsDuplicatePair(d, e) ==
    OverlapRatioAboveHalf(d.box, e.box) /\ SimilarityAboveFourFifths(d.text, e.text)

\* the call was made on the reading at 0.91 and the misreading at 0.60
TwoReadings ==
    /\ Len(detections) = 2
    /\ \E i, j \in 1..2 :
          /\ detections[i].text = Text_Reading /\ detections[i].confidence = 91
          /\ detections[j].text = Text_Misreading /\ detections[j].confidence = 60

\* the detection at 0.91 of the two readings
TheReading == detections[CHOOSE i \in 1..2 : detections[i].confidence = 91]

\* C8 as stated: for the two readings in boxes whose overlap ratio is at
\* least 0.5, exactly 0.5 included, only the 0.91 detection is returned.
C8_OverlapAtLeastHalf ==
    (/\ phase = "returned" /\ TwoReadings
     /\ OverlapRatioAtLeastHalf(detections[1].box, detections[2].box))
    => merged = <<TheReading>>

\* the detection at 0.60 of the two readings
TheMisreading == detections[CHOOSE i \in 1..2 : detections[i].confidence = 60]

\* C8 amended: for the two readings in boxes whose overlap ratio is above
\* 0.5, only the 0.91 detection is returned; at exactly 0.5, as at any ratio
\* up to 0.5, both are returned.
C8_OverlapAboveHalf ==
    (phase = "returned" /\ TwoReadings) =>
        IF OverlapRatioAboveHalf(detections[1].box, detections[2].box)
        THEN merged = <<TheReading>>
        ELSE merged = <<TheReading, TheMisreading>>

\* the merge returned for the two readings in boxes of overlap ratio 0.75
C8_Witness ==
    /\ phase = "returned" /\ TwoReadings
    /\ {detections[1].box, detections[2].box} = {BoxFull, BoxMost}
    /\ Len(merged) = 1

\* C9: an iteration of the merge loop appends the detection when no accepted
\* entry forms a duplicate pair with it (overlap ratio > 0.5 and similarity
\* > 0.8); otherwise it adds no entry and, for an accepted entry of such a
\* pair, keeps of the two the one with the higher confidence.
C9_DuplicateRule ==
    [][(phase = "loop" /\ position' = position + 1) =>
          LET d == sorted_detections[position]
              dups == {k \in 1..Len(merged) : IsDuplicatePair(d, merged[k])}
          IN IF dups = {} THEN merged' = Append(merged, d)
             ELSE /\ Len(merged') = Len(merged)
                  /\ \E k \in dups :
                        IF d.confidence > merged[k].confidence
                        THEN merged' = Append(Remove(merged, merged[k]), d)
                        ELSE merged' = merged]_vars

\* the loop has dropped a duplicate and has kept a detection whose box
\* overlaps an accepted one by exactly half
C9_Witness ==
    /\ phase = "returned"
    /\ Len(detections) = 3
    /\ Len(merged) = 2
    /\ \E i, j \in 1..2 :
          /\ i # j
          /\ OverlapRatioAtLeastHalf(merged[i].box, merged[j].box)
          /\ SimilarityAboveFourFifths(merged[i].text, merged[j].text)

-----------------------------------------------------------------------------
(* GPSExtractor.decimal_to_exif_gps *)

\* The source computes minutes and seconds in IEEE doubles.  A double lies
\* within a rounding error of the exact value, so int() of a value that is
\* exactly an integer n yields n or n - 1.  A conversion is therefore
\* modelled for each way the rounding can fall:
\*   "exact"         every intermediate value is the exact one;
\*   "above"         the seconds lie just above the exact value;
\*   "below"         the seconds lie just below the exact value;
\*   "minute_below"  minutes_float lies just below a whole number of minutes.
Roundings(decimal_deg) ==
    {"exact", "above"}
    \cup (IF decimal_deg.fn % 60000 # 0 THEN {"below"} ELSE {})
    \cup (IF decimal_deg.fn % 60000 = 0 /\ decimal_deg.fn > 0 THEN {"minute_below"} ELSE {})

\* a seconds value: us is int(seconds * 1000000), integral is
\* "seconds == int(seconds)"
Seconds(us, integral) == [us |-> us, integral |-> integral]

\* seconds taken as the fraction of a minute, not multiplied by 60
decimal_to_dms_fraction_of_minute(decimal_deg, rounding) ==
    <<decimal_deg.ip, decimal_deg.fn \div 60000,
      Seconds(((decimal_deg.fn % 60000) * 1000) \div 60, FALSE)>>

\* (degrees, minutes, seconds) of abs(decimal_deg); the fraction fn counts
\* thousandths of a second of arc
decimal_to_dms(decimal_deg, rounding) ==
    LET degrees == decimal_deg.ip
        minutes == decimal_deg.fn \div 60000
        us == (decimal_deg.fn % 60000) * 1000
    IN CASE rounding = "exact" -> <<degrees, minutes, Seconds(us, us % 1000000 = 0)>>
         [] rounding = "above" -> <<degrees, minutes, Seconds(us, FALSE)>>
         [] rounding = "below" -> <<degrees, minutes, Seconds(us - 1, FALSE)>>
         [] rounding = "minute_below" -> <<degrees, minutes - 1, Seconds(59999999, FALSE)>>

\* "if f == int(f): return int(f), 1 / else: return int(f * precision), precision"
float_to_rational(f) ==
    IF f.integral THEN <<f.us \div 1000000, 1>> ELSE <<f.us, 1000000>>

\* "'N' if lat >= 0 else 'S'"
Ref(decimal_deg, positive, negative) ==
    IF Le(IntNum(0), decimal_deg) THEN positive ELSE negative

decimal_to_exif_gps(lat, lon, lat_rounding, lon_rounding) ==
    LET lat_dms == decimal_to_dms(lat, lat_rounding)
        lon_dms == decimal_to_dms(lon, lon_rounding)
    IN [GPSLatitudeRef |-> Ref(lat, "N", "S"),
        GPSLatitude |-> << <<lat_dms[1], 1>>, <<lat_dms[2], 1>>, float_to_rational(lat_dms[3]) >>,
        GPSLongitudeRef |-> Ref(lon, "E", "W"),
        GPSLongitude |-> << <<lon_dms[1], 1>>, <<lon_dms[2], 1>>, float_to_rational(lon_dms[3]) >>,
        GPSMapDatum |-> "WGS-84",
        GPSVersionID |-> <<2, 2, 0, 0>>]

-----------------------------------------------------------------------------
(* Codec runs: decimal_to_exif_gps called on a coordinate *)

\* ip degrees and ms thousandths of a second of arc
Arc(neg, ip, ms) == Num(neg, ip, ms * (FracDen \div 3600000))

LatitudeInputs ==
    {Decimal4(FALSE, 40, 7128), Decimal4(TRUE, 40, 7128), Decimal4(FALSE, 14, 5995),
     Decimal4(TRUE, 33, 8688), Decimal4(FALSE, 2, 3000), Decimal4(FALSE, 40, 5000),
     IntNum(0), Num(TRUE, 0, 0), IntNum(90), IntNum(-90),
     Arc(FALSE, 9, 2322861), Arc(FALSE, 89, 3599999), Arc(TRUE, 0, 1)}

LongitudeInputs ==
    {Decimal4(TRUE, 74, 60), Decimal4(FALSE, 74, 60), Decimal4(FALSE, 120, 9842),
     IntNum(0), IntNum(180), IntNum(-180),
     Arc(FALSE, 125, 1978411), Arc(TRUE, 179, 3599999), Decimal4(TRUE, 0, 1)}

\* one call of decimal_to_exif_gps(lat, lon)
ConvertToExif ==
    /\ gps_data = None
    /\ \E lat \in LatitudeInputs, lon \in LongitudeInputs :
          \E lat_rounding \in Roundings(lat), lon_rounding \in Roundings(lon) :
             /\ coordinates' = Some(<<lat, lon>>)
             /\ gps_data' = Some(decimal_to_exif_gps(lat, lon, lat_rounding, lon_rounding))
    /\ UNCHANGED <<extraction_vars, merge_vars, worker_vars, cache_vars, thread_vars, window_vars, regions_vars, sequential_vars>>

NextExif == ConvertToExif

SpecExif == Init /\ [][NextExif]_vars

-----------------------------------------------------------------------------
(* Properties of the codec *)

\* a (numerator, denominator) pair in millionths; the denominators the
\* codec writes divide 1000000
Millionths(r) == r[1] * (1000000 \div r[2])

\* degrees + minutes/60 + (seconds numerator / seconds denominator)/3600,
\* negated if negated, lies within 1e-5 of v.  The difference is taken in
\* thousandths of a second of arc first (1e-5 degree is 36 of them), then
\* in millionths.
DecodesWithin(v, dms, negated) ==
    LET seconds_us == Millionths(dms[3])
        decoded_ms == dms[1][1] * 3600000 + dms[2][1] * 60000 + seconds_us \div 1000
        v_ms == v.ip * 3600000 + v.fn
        d_ms == IF negated = v.neg THEN decoded_ms - v_ms ELSE decoded_ms + v_ms
    IN /\ d_ms \in -37..37
       /\ AbsDiff(d_ms * 1000 + (seconds_us % 1000), 0) <= 36000

\* C10: decoding the record as degrees + minutes/60 + seconds/3600, negated
\* when the reference is S (W for the longitude), gives the converted value
\* within 1e-5; the reference is N/E for a value >= 0 and S/W otherwise.
C10_RoundTrip ==
    gps_data # None =>
        LET lat == coordinates[1][1]
            lon == coordinates[1][2]
            g == gps_data[1]
        IN /\ g.GPSLatitudeRef = (IF Le(IntNum(0), lat) THEN "N" ELSE "S")
           /\ g.GPSLongitudeRef = (IF Le(IntNum(0), lon) THEN "E" ELSE "W")
           /\ DecodesWithin(lat, g.GPSLatitude, g.GPSLatitudeRef = "S")
           /\ DecodesWithin(lon, g.GPSLongitude, g.GPSLongitudeRef = "W")

\* latitude 40.7128 was converted with the seconds falling just below 46.08
C10_Witness ==
    /\ gps_data # None
    /\ coordinates[1][1] = Decimal4(FALSE, 40, 7128)
    /\ gps_data[1].GPSLatitude = << <<40, 1>>, <<42, 1>>, <<46079999, 1000000>> >>
    /\ gps_data[1].GPSLatitudeRef = "N"

-----------------------------------------------------------------------------
(* OCRModelCache.get_model *)

\* an easyocr.Reader object: the key it was built for, the device, and the
\* thread that built it (0: the worker thread of run)
Reader(key, gpu, thread) == [key |-> key, gpu |-> gpu, thread |-> thread]

\* "self._models[model_key] = easyocr.Reader(...)": the object is known by
\* its place in the list of the objects constructed
StoreReader(key, reader) ==
    /\ readers' = Append(readers, reader)
    /\ models' = [models EXCEPT ![key] = Some(Len(readers) + 1)]

\* a thread calls get_model(language, use_gpu): "model_key = ..."
CacheCall(t) ==
    /\ thread_pc[t] = "idle"
    /\ \E language \in Languages, use_gpu \in BOOLEAN :
          thread_key' = [thread_key EXCEPT ![t] = model_key(language, use_gpu)]
    /\ thread_pc' = [thread_pc EXCEPT ![t] = "check"]
    /\ UNCHANGED <<thread_model, cache_vars, extraction_vars, merge_vars, exif_vars, worker_vars, window_vars, regions_vars, sequential_vars>>

\* "if model_key not in self._models:"
CacheCheck(t) ==
    /\ thread_pc[t] = "check"
    /\ thread_pc' = [thread_pc EXCEPT ![t] =
                        IF models[thread_key[t]] = None THEN "construct" ELSE "return"]
    /\ UNCHANGED <<thread_key, thread_model, cache_vars>>
    /\ UNCHANGED <<extraction_vars, merge_vars, exif_vars, worker_vars, window_vars, regions_vars, sequential_vars>>

\* "try: self._models[model_key] = easyocr.Reader([language], gpu=use_gpu)";
\* the constructor returns or raises
CacheConstruct(t) ==
    /\ thread_pc[t] = "construct"
    /\ \/ /\ StoreReader(thread_key[t], Reader(thread_key[t], thread_key[t][2] = "gpu", t))
          /\ thread_pc' = [thread_pc EXCEPT ![t] = "return"]
       \/ /\ thread_pc' = [thread_pc EXCEPT ![t] = "fallback"]
          /\ UNCHANGED cache_vars
    /\ UNCHANGED <<thread_key, thread_model, extraction_vars, merge_vars, exif_vars, worker_vars, window_vars, regions_vars, sequential_vars>>

\* "except Exception: self._models[model_key] = easyocr.Reader([language],
\* gpu=False)"; an exception of this constructor leaves get_model
CacheFallback(t) ==
    /\ thread_pc[t] = "fallback"
    /\ \/ /\ StoreReader(thread_key[t], Reader(thread_key[t], FALSE, t))
          /\ thread_pc' = [thread_pc EXCEPT ![t] = "return"]
       \/ /\ thread_pc' = [thread_pc EXCEPT ![t] = "raised"]
          /\ UNCHANGED cache_vars
    /\ UNCHANGED <<thread_key, thread_model, extraction_vars, merge_vars, exif_vars, worker_vars, window_vars, regions_vars, sequential_vars>>

\* "return self._models[model_key]"
CacheReturn(t) ==
    /\ thread_pc[t] = "return"
    /\ thread_model' = [thread_model EXCEPT ![t] = models[thread_key[t]]]
    /\ thread_pc' = [thread_pc EXCEPT ![t] = "returned"]
    /\ UNCHANGED <<thread_key, cache_vars, extraction_vars, merge_vars, exif_vars, worker_vars, window_vars, regions_vars, sequential_vars>>

NextCache ==
    \E t \in Threads :
       CacheCall(t) \/ CacheCheck(t) \/ CacheConstruct(t) \/ CacheFallback(t) \/ CacheReturn(t)

SpecCache == Init /\ [][NextCache]_vars

-----------------------------------------------------------------------------
(* OCRWorker.run *)

\* img_array.shape[:2] of the images of the batch
ImageShape == [height |-> 12, width |-> 12]

\* "regions = [...]": the eight crops (x1, y1, x2, y2)
Regions(width, height) ==
    << <<0, 0, width \div 3, height \div 4>>,
       <<(width * 2) \div 3, 0, width, height \div 4>>,
       <<width \div 3, 0, (width * 2) \div 3, height \div 6>>,
       <<0, (height * 3) \div 4, width \div 3, height>>,
       <<(width * 2) \div 3, (height * 3) \div 4, width, height>>,
       <<width \div 3, (height * 5) \div 6, (width * 2) \div 3, height>>,
       <<0, height \div 3, width \div 6, (height * 2) \div 3>>,
       <<(width * 5) \div 6, height \div 3, width, (height * 2) \div 3>> >>

\* the three full-image passes: min_size and text_threshold (in tenths)
FullImagePasses ==
    << [min_size |-> 10, text_threshold |-> 8],
       [min_size |-> 5, text_threshold |-> 6],
       [min_size |-> 3, text_threshold |-> 4] >>

\* what the engine reads in region k: one detection, its box relative to the
\* crop, its text [#a] .. [#h]
RegionReading(k) ==
    <<Detection(Rect(0, 0, 2, 1), <<"#", LowerLetters[k]>>, 50 + k)>>

\* what the engine reads in full-image pass n: the coordinate line in the
\* first pass, the same line in an overlapping box in the second, a camera
\* setting in the third
PassReading(n) ==
    CASE n = 1 -> <<Detection(BoxFull, Input_GpsLabeled[1], 91)>>
      [] n = 2 -> <<Detection(BoxMost, Input_GpsLabeled[1], 60)>>
      [] n = 3 -> <<Detection(Rect(0, 5, 4, 7), <<"I","S","O"," ","4","0","0",",">>, 40)>>

\* what the engine reads in pass n of image i: the images with an odd number
\* show the coordinate line, those with an even number show the camera
\* setting only, which every pass reads in the same box
ImagePassReading(i, n) == IF i % 2 = 1 THEN PassReading(n) ELSE PassReading(3)

\* the box as read in the crop, not moved back
BoxAsRead(box, x1, y1) == box

\* "adjusted_box = [(x + x1, y + y1) for x, y in box]"
AdjustedBox(box, x1, y1) == [p \in 1..Len(box) |-> <<box[p][1] + x1, box[p][2] + y1>>]

\* the detections of a region with their boxes moved back to the full image
Adjusted(region_results, region) ==
    [d \in 1..Len(region_results) |->
        Detection(AdjustedBox(region_results[d].box, region[1], region[2]),
                  region_results[d].text, region_results[d].confidence)]

\* an emitted signal: its name, the image it is about (0: none) and its value
Signal(name, about, value) == [signal |-> name, image |-> about, value |-> value]

\* a readtext call: the kind of scan job, its number, and whether it returned
ScanJob(kind, number, returned) == [kind |-> kind, number |-> number, returned |-> returned]

\* OCRWorker(image_paths, roi_detection=...) is constructed and started
StartBatch ==
    /\ pc \in {"idle", "done"}
    /\ \E n \in 0..MaxImages : image_paths' = [k \in 1..n |-> k]
    /\ use_roi_detection' \in BOOLEAN
    /\ pc' = "get_model"
    /\ image' = 0
    /\ job' = 0
    /\ scan_jobs' = <<>>
    /\ roi_results' = <<>>
    /\ all_results' = <<>>
    /\ merged_results' = <<>>
    /\ results' = <<>>
    /\ signals' = <<>>
    /\ UNCHANGED <<extraction_vars, merge_vars, exif_vars, cache_vars, thread_vars, window_vars, regions_vars, sequential_vars>>

\* the initialization error handled inside the outer block, so that run goes on
\* to emit finished
GetModelThenFinished ==
    /\ pc = "get_model"
    /\ LET key == model_key("en", FALSE)
           loading == Append(signals, Signal("model_loading", 0, 0))
       IN \/ /\ models[key] # None
             /\ signals' = Append(loading, Signal("model_loading", 0, 1))
             /\ pc' = "loop"
             /\ UNCHANGED cache_vars
          \/ /\ models[key] = None
             /\ StoreReader(key, Reader(key, FALSE, 0))
             /\ signals' = Append(loading, Signal("model_loading", 0, 1))
             /\ pc' = "loop"
          \/ /\ models[key] = None
             /\ signals' = Append(loading, Signal("error", 0, 0))
             /\ pc' = "finish"
             /\ UNCHANGED cache_vars
    /\ UNCHANGED <<image_paths, use_roi_detection, image, job, scan_jobs, roi_results,
                   all_results, merged_results, results>>
    /\ UNCHANGED <<extraction_vars, merge_vars, exif_vars, thread_vars, window_vars, regions_vars, sequential_vars>>

\* run, up to the loop: model_loading is emitted, get_model returns the
\* cached model or constructs one (the Reader constructor returns, or raises
\* and the CPU constructor returns, or both raise), then "OCR model ready"
\* is emitted; an exception leaves run through the outer handler, which
\* emits the initialization error
GetModel ==
    /\ pc = "get_model"
    /\ LET key == model_key("en", FALSE)
           loading == Append(signals, Signal("model_loading", 0, 0))
       IN \/ /\ models[key] # None
             /\ signals' = Append(loading, Signal("model_loading", 0, 1))
             /\ pc' = "loop"
             /\ UNCHANGED cache_vars
          \/ /\ models[key] = None
             /\ StoreReader(key, Reader(key, FALSE, 0))
             /\ signals' = Append(loading, Signal("model_loading", 0, 1))
             /\ pc' = "loop"
          \/ /\ models[key] = None
             /\ signals' = Append(loading, Signal("error", 0, 0))
             /\ pc' = "done"
             /\ UNCHANGED cache_vars
    /\ UNCHANGED <<image_paths, use_roi_detection, image, job, scan_jobs, roi_results,
                   all_results, merged_results, results>>
    /\ UNCHANGED <<extraction_vars, merge_vars, exif_vars, thread_vars, window_vars, regions_vars, sequential_vars>>

\* "for i, image_path in enumerate(self.image_paths)": the next image is
\* taken, "all_results = []"; after the last one run goes on to finished
NextImage ==
    /\ pc = "loop"
    /\ IF image < Len(image_paths)
       THEN /\ image' = image + 1
            /\ all_results' = <<>>
            /\ scan_jobs' = <<>>
            /\ roi_results' = <<>>
            /\ merged_results' = <<>>
            /\ job' = 1
            /\ pc' = IF use_roi_detection THEN "open" ELSE "pass"
       ELSE /\ pc' = "finish"
            /\ UNCHANGED <<image, all_results, scan_jobs, roi_results, merged_results, job>>
    /\ UNCHANGED <<image_paths, use_roi_detection, results, signals>>
    /\ UNCHANGED <<extraction_vars, merge_vars, exif_vars, cache_vars, thread_vars, window_vars, regions_vars, sequential_vars>>

\* _process_coordinate_regions: "img = Image.open(image_path)" ... "roi_results
\* = []"; an exception is caught by the handler of the function, which
\* returns [], and run goes on to the first pass
OpenImage ==
    /\ pc = "open"
    /\ roi_results' = <<>>
    /\ pc' \in {"region", "pass"}
    /\ UNCHANGED <<image_paths, use_roi_detection, image, job, scan_jobs, all_results,
                   merged_results, results, signals>>
    /\ UNCHANGED <<extraction_vars, merge_vars, exif_vars, cache_vars, thread_vars, window_vars, regions_vars, sequential_vars>>

\* one iteration of "for x1, y1, x2, y2 in regions": the crop is read and its
\* detections are appended to roi_results with adjusted boxes; after the last
\* region "return roi_results" and "all_results.extend(roi_results)".  An
\* exception of readtext is caught by the one handler of the function:
\* "return []", whatever roi_results holds
RegionJob ==
    /\ pc = "region"
    /\ LET regions == Regions(ImageShape.width, ImageShape.height)
       IN \/ /\ scan_jobs' = Append(scan_jobs, ScanJob("region", job, TRUE))
             /\ roi_results' = roi_results \o Adjusted(RegionReading(job), regions[job])
             /\ IF job < Len(regions)
                THEN /\ job' = job + 1
                     /\ UNCHANGED <<pc, all_results>>
                ELSE /\ all_results' = all_results \o roi_results'
                     /\ job' = 1
                     /\ pc' = "pass"
          \/ /\ scan_jobs' = Append(scan_jobs, ScanJob("region", job, FALSE))
             /\ all_results' = all_results \o <<>>
             /\ job' = 1
             /\ pc' = "pass"
             /\ UNCHANGED roi_results
    /\ UNCHANGED <<image_paths, use_roi_detection, image, merged_results, results, signals>>
    /\ UNCHANGED <<extraction_vars, merge_vars, exif_vars, cache_vars, thread_vars, window_vars, regions_vars, sequential_vars>>

\* a handler that leaves the loop ("break") instead of going on to the next image
FullImagePassAborting ==
    /\ pc = "pass"
    /\ \/ /\ scan_jobs' = Append(scan_jobs, ScanJob("pass", job, TRUE))
          /\ all_results' = all_results \o ImagePassReading(image, job)
          /\ IF job < Len(FullImagePasses)
             THEN job' = job + 1 /\ UNCHANGED pc
             ELSE job' = 1 /\ pc' = "merge"
          /\ UNCHANGED signals
       \/ /\ scan_jobs' = Append(scan_jobs, ScanJob("pass", job, FALSE))
          /\ signals' = Append(signals, Signal("error", image, 0))
          /\ pc' = "finish"
          /\ UNCHANGED <<all_results, job>>
    /\ UNCHANGED <<image_paths, use_roi_detection, image, roi_results, merged_results, results>>
    /\ UNCHANGED <<extraction_vars, merge_vars, exif_vars, cache_vars, thread_vars, window_vars, regions_vars, sequential_vars>>

\* one full-image pass: "all_results.extend(ocr.readtext(image_path, ...))".
\* An exception of readtext is caught by the handler of the loop body:
\* "self.error.emit(...)" and "continue"
FullImagePass ==
    /\ pc = "pass"
    /\ \/ /\ scan_jobs' = Append(scan_jobs, ScanJob("pass", job, TRUE))
          /\ all_results' = all_results \o ImagePassReading(image, job)
          /\ IF job < Len(FullImagePasses)
             THEN job' = job + 1 /\ UNCHANGED pc
             ELSE job' = 1 /\ pc' = "merge"
          /\ UNCHANGED signals
       \/ /\ scan_jobs' = Append(scan_jobs, ScanJob("pass", job, FALSE))
          /\ signals' = Append(signals, Signal("error", image, 0))
          /\ pc' = "loop"
          /\ UNCHANGED <<all_results, job>>
    /\ UNCHANGED <<image_paths, use_roi_detection, image, roi_results, merged_results, results>>
    /\ UNCHANGED <<extraction_vars, merge_vars, exif_vars, cache_vars, thread_vars, window_vars, regions_vars, sequential_vars>>

\* "merged_results = self._merge_detections(all_results)"
MergeResults ==
    /\ pc = "merge"
    /\ merged_results' = _merge_detections(all_results)
    /\ pc' = "format"
    /\ UNCHANGED <<image_paths, use_roi_detection, image, job, scan_jobs, roi_results,
                   all_results, results, signals>>
    /\ UNCHANGED <<extraction_vars, merge_vars, exif_vars, cache_vars, thread_vars, window_vars, regions_vars, sequential_vars>>

\* the texts of the merged detections, in order
ExtractedTexts(merged_list) == [k \in 1..Len(merged_list) |-> merged_list[k].text]

\* a loop body that appends the result only when a coordinate was found
AppendResultWhenCoordinate ==
    /\ pc = "format"
    /\ LET extracted_texts == ExtractedTexts(merged_results)
           gps_coords == IF extracted_texts # <<>>
                         THEN extract_gps_coordinates(extracted_texts, GpsPatternBank,
                                                      ExclusionPatternBank)
                         ELSE None
       IN results' = IF gps_coords = None THEN results
                     ELSE Append(results, [image_path |-> image_paths[image],
                                           text_data |-> merged_results,
                                           gps_coordinates |-> gps_coords])
    /\ signals' = Append(signals, Signal("progress", image, (image * 100) \div Len(image_paths)))
    /\ pc' = "loop"
    /\ UNCHANGED <<image_paths, use_roi_detection, image, job, scan_jobs, roi_results,
                   all_results, merged_results>>
    /\ UNCHANGED <<extraction_vars, merge_vars, exif_vars, cache_vars, thread_vars, window_vars, regions_vars, sequential_vars>>

\* the result is formatted, the coordinate is extracted from the texts of
\* the merged detections, "self.results.append(formatted_result)" and
\* "self.progress.emit(int((i + 1) / total_files * 100))"
AppendResult ==
    /\ pc = "format"
    /\ LET extracted_texts == ExtractedTexts(merged_results)
           gps_coords == IF extracted_texts # <<>>
                         THEN extract_gps_coordinates(extracted_texts, GpsPatternBank,
                                                      ExclusionPatternBank)
                         ELSE None
       IN results' = Append(results, [image_path |-> image_paths[image],
                                      text_data |-> merged_results,
                                      gps_coordinates |-> gps_coords])
    /\ signals' = Append(signals, Signal("progress", image, (image * 100) \div Len(image_paths)))
    /\ pc' = "loop"
    /\ UNCHANGED <<image_paths, use_roi_detection, image, job, scan_jobs, roi_results,
                   all_results, merged_results>>
    /\ UNCHANGED <<extraction_vars, merge_vars, exif_vars, cache_vars, thread_vars, window_vars, regions_vars, sequential_vars>>

\* "self.finished.emit(self.results)"
Finish ==
    /\ pc = "finish"
    /\ signals' = Append(signals, Signal("finished", 0, Len(results)))
    /\ pc' = "done"
    /\ UNCHANGED <<image_paths, use_roi_detection, image, job, scan_jobs, roi_results,
                   all_results, merged_results, results>>
    /\ UNCHANGED <<extraction_vars, merge_vars, exif_vars, cache_vars, thread_vars, window_vars, regions_vars, sequential_vars>>

NextWorker ==
    \/ StartBatch \/ GetModel \/ NextImage \/ OpenImage \/ RegionJob \/ FullImagePass
    \/ MergeResults \/ AppendResult \/ Finish

SpecWorker == Init /\ [][NextWorker]_vars

\* the steps of run
RunStep ==
    \/ GetModel \/ NextImage \/ OpenImage \/ RegionJob \/ FullImagePass
    \/ MergeResults \/ AppendResult \/ Finish

\* run has been started and has not ended; each step of run is enabled by
\* its position alone (every call run makes returns or raises) and changes
\* pc or job, so Running is ENABLED <<RunStep>>_vars
Running == pc \notin {"idle", "done"}

\* run is the body of a thread that keeps being scheduled: weak fairness of
\* RunStep, WF_vars(RunStep), with its enabling condition written out
SpecWorkerFair == SpecWorker /\ ([]<>(~Running) \/ []<><<RunStep>>_vars)

-----------------------------------------------------------------------------
(* OCRWorker._process_coordinate_regions called on an image of any shape *)

\* the regions in which the engine finds text, for the images of this model:
\* all of them, the first and the last, none
ReadingSets == {1..8, {1, 8}, {}}

\* what readtext returns for the crops of one image
ReadsOf(found) == [k \in 1..8 |-> IF k \in found THEN RegionReading(k) ELSE <<>>]

RECURSIVE AdjustedAll(_, _, _)
\* roi_results after the regions 1..n: the detections of each region, adjusted
AdjustedAll(reads, regions, n) ==
    IF n = 0 THEN <<>>
    ELSE AdjustedAll(reads, regions, n - 1) \o Adjusted(reads[n], regions[n])

\* one call of _process_coordinate_regions on an image of height x width
\* pixels: every readtext returns and the adjusted detections are returned, or
\* the readtext of region "raising" raises and the handler returns []
ProcessCoordinateRegions ==
    /\ region_list = <<>>
    /\ \E height \in 1..MaxSide, width \in 1..MaxSide :
          /\ img_array' = [height |-> height, width |-> width]
          /\ region_list' = Regions(width, height)
    /\ \E found \in ReadingSets :
          \/ /\ region_reads' = ReadsOf(found)
             /\ roi' = AdjustedAll(region_reads', region_list', 8)
          \/ \E raising \in 1..8 :
                /\ region_reads' = SubSeq(ReadsOf(found), 1, raising - 1)
                /\ roi' = <<>>
    /\ UNCHANGED <<extraction_vars, merge_vars, exif_vars, worker_vars, cache_vars, thread_vars, window_vars, sequential_vars>>

NextRegions == ProcessCoordinateRegions

SpecRegions == Init /\ [][NextRegions]_vars

-----------------------------------------------------------------------------
(* OCRModelCache in sequential use: each call returns before the next begins *)

\* a call and what it returned: the instance it was made on (0: none), the key,
\* the model returned (None if none) and the number of Reader objects it built
CacheOp(op, self, key, model, built) ==
    [op |-> op, self |-> self, key |-> key, model |-> model, built |-> built]

\* the OCRModelCache objects created so far
InstancesCreated ==
    Cardinality({k \in 1..Len(cache_log) :
                    cache_log[k].op = "OCRModelCache" /\ cache_log[k].built = 1})

\* the instances the callers hold
Handles == {cache_log[k].self : k \in {j \in 1..Len(cache_log) : cache_log[j].op = "OCRModelCache"}}

\* the cache looked up as if it were always empty
NeverCached(entries, key) == FALSE

\* "model_key in self._models"
IsCached(entries, key) == entries[key] # None

\* OCRModelCache(): __new__ creates the object when _instance is None and
\* returns _instance
NewCache ==
    /\ Len(cache_log) < MaxCacheCalls
    /\ IF _instance = None
       THEN /\ _instance' = Some(InstancesCreated + 1)
            /\ cache_log' = Append(cache_log,
                                   CacheOp("OCRModelCache", InstancesCreated + 1, <<>>, None, 1))
       ELSE /\ UNCHANGED _instance
            /\ cache_log' = Append(cache_log,
                                   CacheOp("OCRModelCache", _instance[1], <<>>, None, 0))
    /\ UNCHANGED <<cache_vars, thread_vars>>
    /\ UNCHANGED <<extraction_vars, merge_vars, exif_vars, worker_vars, window_vars, regions_vars>>

\* one whole call self.get_model(language, use_gpu): the cached model is
\* returned; or a Reader is built, stored and returned; or the first
\* constructor raises and the Reader built with gpu=False is stored and
\* returned; or both constructors raise and the exception leaves get_model
get_model ==
    /\ Len(cache_log) < MaxCacheCalls
    /\ \E self \in Handles, language \in Languages, use_gpu \in BOOLEAN :
          LET key == model_key(language, use_gpu)
          IN IF IsCached(models, key)
             THEN /\ cache_log' = Append(cache_log, CacheOp("get_model", self, key, models[key], 0))
                  /\ UNCHANGED cache_vars
             ELSE \/ /\ StoreReader(key, Reader(key, use_gpu, 0))
                     /\ cache_log' = Append(cache_log,
                                            CacheOp("get_model", self, key, models'[key], 1))
                  \/ /\ StoreReader(key, Reader(key, FALSE, 0))
                     /\ cache_log' = Append(cache_log,
                                            CacheOp("get_model", self, key, models'[key], 1))
                  \/ /\ cache_log' = Append(cache_log, CacheOp("get_model", self, key, None, 0))
                     /\ UNCHANGED cache_vars
    /\ UNCHANGED <<_instance, thread_vars>>
    /\ UNCHANGED <<extraction_vars, merge_vars, exif_vars, worker_vars, window_vars, regions_vars>>

\* self.clear_cache(): "self._models.clear()"
clear_cache ==
    /\ Len(cache_log) < MaxCacheCalls
    /\ \E self \in Handles :
          cache_log' = Append(cache_log, CacheOp("clear_cache", self, <<>>, None, 0))
    /\ models' = [key \in ModelKeys |-> None]
    /\ UNCHANGED <<readers, _instance, thread_vars>>
    /\ UNCHANGED <<extraction_vars, merge_vars, exif_vars, worker_vars, window_vars, regions_vars>>

NextSequential == NewCache \/ get_model \/ clear_cache

SpecCacheSequential == Init /\ [][NextSequential]_vars

-----------------------------------------------------------------------------
(* The application window (main.py): OCRApp and the OCRWorker threads it starts.
   A signal a worker emits is queued for the window's thread and its slot runs
   when the window's event loop takes it from the queue. *)

WorkerIds == 1..Len(ocr_workers)

Emit(name, w) == Append(events, [name |-> name, worker |-> w])

\* QMessageBox.critical and QFileDialog are modal: while one is open the window
\* takes no clicks, but its event loop keeps delivering queued signals
Modal == dialogs # <<>>

\* OCRApp.select_files: a non-empty choice replaces selected_files
select_files ==
    /\ ~Modal
    /\ \E n \in 1..MaxImages :
        /\ selected_files # [k \in 1..n |-> k]
        /\ selected_files' = [k \in 1..n |-> k]
    /\ UNCHANGED <<process_btn, ocr_workers, events, dialogs>>
    /\ UNCHANGED <<extraction_vars, merge_vars, exif_vars, worker_vars, cache_vars, thread_vars, regions_vars, sequential_vars>>

\* OCRApp.process_images, reached by a click on the enabled process_btn, with
\* files selected: disables the button and starts a new OCRWorker
process_images ==
    /\ ~Modal
    /\ process_btn
    /\ selected_files # <<>>
    /\ Len(ocr_workers) < MaxWorkers
    /\ process_btn' = FALSE
    /\ ocr_workers' =
        Append(ocr_workers, [image_paths |-> selected_files, pc |-> "init", i |-> 0])
    /\ UNCHANGED <<selected_files, events, dialogs>>
    /\ UNCHANGED <<extraction_vars, merge_vars, exif_vars, worker_vars, cache_vars, thread_vars, regions_vars, sequential_vars>>

\* OCRApp.process_images with no file selected: QMessageBox.warning, then return
process_images_warning ==
    /\ ~Modal
    /\ process_btn
    /\ selected_files = <<>>
    /\ dialogs' = Append(dialogs, "warning")
    /\ UNCHANGED <<process_btn, selected_files, ocr_workers, events>>
    /\ UNCHANGED <<extraction_vars, merge_vars, exif_vars, worker_vars, cache_vars, thread_vars, regions_vars, sequential_vars>>

\* OCRWorker.run, "ocr = easyocr.Reader(...)": returns, or raises and the outer
\* handler emits the initialization error and run ends
WorkerInitialize(w) ==
    /\ ocr_workers[w].pc = "init"
    /\ \/ /\ ocr_workers' = [ocr_workers EXCEPT ![w].pc = "loop"]
          /\ UNCHANGED events
       \/ /\ ocr_workers' = [ocr_workers EXCEPT ![w].pc = "ended"]
          /\ events' = Emit("error", w)
    /\ UNCHANGED <<process_btn, selected_files, dialogs>>
    /\ UNCHANGED <<extraction_vars, merge_vars, exif_vars, worker_vars, cache_vars, thread_vars, regions_vars, sequential_vars>>

\* OCRWorker.run, one iteration of the loop over image_paths: progress when the
\* image is read, error and "continue" when readtext raises
WorkerImage(w) ==
    /\ ocr_workers[w].pc = "loop"
    /\ ocr_workers[w].i < Len(ocr_workers[w].image_paths)
    /\ ocr_workers' = [ocr_workers EXCEPT ![w].i = @ + 1]
    /\ \E raised \in BOOLEAN :
        events' = Emit(IF raised THEN "error" ELSE "progress", w)
    /\ UNCHANGED <<process_btn, selected_files, dialogs>>
    /\ UNCHANGED <<extraction_vars, merge_vars, exif_vars, worker_vars, cache_vars, thread_vars, regions_vars, sequential_vars>>

\* OCRWorker.run after the loop: self.finished.emit(self.results)
WorkerFinish(w) ==
    /\ ocr_workers[w].pc = "loop"
    /\ ocr_workers[w].i = Len(ocr_workers[w].image_paths)
    /\ ocr_workers' = [ocr_workers EXCEPT ![w].pc = "ended"]
    /\ events' = Emit("finished", w)
    /\ UNCHANGED <<process_btn, selected_files, dialogs>>
    /\ UNCHANGED <<extraction_vars, merge_vars, exif_vars, worker_vars, cache_vars, thread_vars, regions_vars, sequential_vars>>

\* the window's event loop delivers the oldest queued progress signal:
\* progress_bar.setValue
DeliverProgress ==
    /\ events # <<>>
    /\ Head(events).name = "progress"
    /\ events' = Tail(events)
    /\ UNCHANGED <<process_btn, selected_files, ocr_workers, dialogs>>
    /\ UNCHANGED <<extraction_vars, merge_vars, exif_vars, worker_vars, cache_vars, thread_vars, regions_vars, sequential_vars>>

\* OCRApp.on_processing_finished
on_processing_finished ==
    /\ events # <<>>
    /\ Head(events).name = "finished"
    /\ events' = Tail(events)
    /\ process_btn' = TRUE
    /\ UNCHANGED <<selected_files, ocr_workers, dialogs>>
    /\ UNCHANGED <<extraction_vars, merge_vars, exif_vars, worker_vars, cache_vars, thread_vars, regions_vars, sequential_vars>>

\* OCRApp.on_processing_error, up to the opening of QMessageBox.critical
on_processing_error ==
    /\ events # <<>>
    /\ Head(events).name = "error"
    /\ events' = Tail(events)
    /\ dialogs' = Append(dialogs, "critical")
    /\ UNCHANGED <<process_btn, selected_files, ocr_workers>>
    /\ UNCHANGED <<extraction_vars, merge_vars, exif_vars, worker_vars, cache_vars, thread_vars, regions_vars, sequential_vars>>

\* the user closes the innermost dialog; after QMessageBox.critical returns,
\* on_processing_error goes on with process_btn.setEnabled(True)
CloseDialog ==
    /\ dialogs # <<>>
    /\ dialogs' = SubSeq(dialogs, 1, Len(dialogs) - 1)
    /\ process_btn' = IF dialogs[Len(dialogs)] = "critical" THEN TRUE ELSE process_btn
    /\ UNCHANGED <<selected_files, ocr_workers, events>>
    /\ UNCHANGED <<extraction_vars, merge_vars, exif_vars, worker_vars, cache_vars, thread_vars, regions_vars, sequential_vars>>

NextWindow ==
    \/ select_files
    \/ process_images
    \/ process_images_warning
    \/ \E w \in WorkerIds : WorkerInitialize(w)
    \/ \E w \in WorkerIds : WorkerImage(w)
    \/ \E w \in WorkerIds : WorkerFinish(w)
    \/ DeliverProgress
    \/ on_processing_finished
    \/ on_processing_error
    \/ CloseDialog

SpecWindow == Init /\ [][NextWindow]_vars

-----------------------------------------------------------------------------
(* The seconds rational *)

\* round(seconds * 1000000) for the seconds that go with the written whole
\* minutes: the double lies within 1e-9 of the exact seconds, which are a
\* whole number of millionths for every value converted here
NearestMillionths(v, dms) == (v.fn - dms[2][1] * 60000) * 1000

RoundedRational(v, dms) ==
    IF dms[3][2] = 1
    THEN dms[3][1] * 1000000 = NearestMillionths(v, dms)
    ELSE dms[3] = <<NearestMillionths(v, dms), 1000000>>

\* C11: the seconds are written as (v, 1) when integral and otherwise with
\* denominator 1000000 and numerator round(v * 1000000), the nearest integer
C11_SecondsRounded ==
    gps_data # None =>
        /\ RoundedRational(coordinates[1][1], gps_data[1].GPSLatitude)
        /\ RoundedRational(coordinates[1][2], gps_data[1].GPSLongitude)

-----------------------------------------------------------------------------
(* Selection among the validated candidates *)

\* the confidence label of a rule priority
LabelOfPriority(p) ==
    IF p >= 9 THEN "HIGH"
    ELSE IF p >= 7 THEN "MEDIUM-HIGH"
    ELSE IF p >= 5 THEN "MEDIUM"
    ELSE "LOW"

\* the result carries the coordinate and source text of candidate c
ResultFrom(c) ==
    /\ result # None
    /\ result[1].latitude = c.latitude
    /\ result[1].longitude = c.longitude
    /\ result[1].source_text = c.source_text

TopPriority(c) == \A j \in 1..Len(candidates) : candidates[j].priority <= c.priority

\* C12: after a call, the result comes from a validated candidate of maximal
\* priority and carries the confidence label of that priority; without a
\* validated candidate the result is absent.
C12_MaxPriorityAndLabel ==
    calls > 0 =>
        IF candidates = <<>> THEN result = None
        ELSE \E k \in 1..Len(candidates) :
                /\ TopPriority(candidates[k])
                /\ ResultFrom(candidates[k])
                /\ result[1].extraction_confidence = LabelOfPriority(candidates[k].priority)

\* a call returned the candidate of a priority-7 rule, labelled MEDIUM-HIGH
C12_Witness ==
    /\ calls > 0 /\ result # None
    /\ \E k \in 1..Len(candidates) : candidates[k].priority = 7 /\ TopPriority(candidates[k])
    /\ result[1].extraction_confidence = "MEDIUM-HIGH"

\* the place of the rule of this type in the pattern bank
BankIndex(type) == CHOOSE i \in 1..Len(gps_patterns) : gps_patterns[i].type = type

\* the leftmost place of the matched text in the corpus
PlaceInCorpus(source_text) ==
    LET corpus == Join(text_list)
    IN CHOOSE i \in 1..Len(corpus) :
          /\ SubSeq(corpus, i, i + Len(source_text) - 1) = source_text
          /\ \A j \in 1..(i - 1) : SubSeq(corpus, j, j + Len(source_text) - 1) # source_text

\* of two candidates of one priority, c is met first: its rule stands
\* earlier in the bank, or it is the same rule and c's match lies further left
DiscoveredBefore(c, d) ==
    \/ BankIndex(c.type) < BankIndex(d.type)
    \/ /\ c.type = d.type
       /\ PlaceInCorpus(c.source_text) < PlaceInCorpus(d.source_text)

\* C13: among validated candidates that share the top priority, the result is
\* the one discovered first: rules of equal priority count in bank order and
\* the matches of one rule from left to right.
C13_FirstDiscoveredWins ==
    (calls > 0 /\ candidates # <<>>) =>
        \E k \in 1..Len(candidates) :
           /\ TopPriority(candidates[k])
           /\ ResultFrom(candidates[k])
           /\ \A j \in 1..Len(candidates) :
                 (candidates[j].priority = candidates[k].priority /\ candidates[j] # candidates[k])
                    => DiscoveredBefore(candidates[k], candidates[j])

\* two matches of the labeled rule were validated, and so were candidates of
\* two rules of priority 7 of which the later in the bank matched further left
C13_Witness ==
    /\ calls > 0 /\ result # None
    /\ \E j, k \in 1..Len(candidates) :
          /\ j # k /\ candidates[j] # candidates[k]
          /\ TopPriority(candidates[j]) /\ TopPriority(candidates[k])
          /\ \/ candidates[j].type = candidates[k].type
             \/ /\ BankIndex(candidates[j].type) < BankIndex(candidates[k].type)
                /\ PlaceInCorpus(candidates[k].source_text) < PlaceInCorpus(candidates[j].source_text)

-----------------------------------------------------------------------------
(* The model cache under concurrent calls *)

\* the threads that constructed a model for the key
Constructors(key) == {readers[k].thread : k \in {j \in 1..Len(readers) : readers[j].key = key}}

\* C17: whatever the interleaving of get_model calls of several threads with
\* one key, at most one of them constructs the model for that key, and all
\* of them return the same model object.
C17_OneInitializationPerKey ==
    \A key \in ModelKeys :
       /\ Cardinality(Constructors(key)) <= 1
       /\ \A s, t \in Threads :
             (/\ thread_pc[s] = "returned" /\ thread_pc[t] = "returned"
              /\ thread_key[s] = key /\ thread_key[t] = key)
                => thread_model[s] = thread_model[t]

-----------------------------------------------------------------------------
(* Properties of OCRWorker.run *)

\* a scan job of this kind and number was issued for the current image
Issued(kind, number) ==
    \E k \in 1..Len(scan_jobs) : scan_jobs[k].kind = kind /\ scan_jobs[k].number = number

\* the detections the current image's scan job returned, as they stand in
\* the full image
ReturnedBy(scan_job) ==
    IF scan_job.kind = "region"
    THEN Adjusted(RegionReading(scan_job.number),
                  Regions(ImageShape.width, ImageShape.height)[scan_job.number])
    ELSE ImagePassReading(image, scan_job.number)

InList(d, list) == \E k \in 1..Len(list) : list[k] = d

\* every detection of every scan job that returned is in the list
HoldsAllReturned(list) ==
    \A k \in 1..Len(scan_jobs) :
       scan_jobs[k].returned =>
          \A d \in 1..Len(ReturnedBy(scan_jobs[k])) : InList(ReturnedBy(scan_jobs[k])[d], list)

SomeJobFailed == \E k \in 1..Len(scan_jobs) : ~scan_jobs[k].returned

\* the loop body for the current image has ended
ImageEnded == pc = "loop" /\ image > 0

ResultsFor(j) == {k \in 1..Len(results) : results[k].image_path = image_paths[j]}

ErrorsFor(j) == {k \in 1..Len(signals) : signals[k].signal = "error" /\ signals[k].image = j}

\* C14: when a scan job of an image has failed, the loop body still ends with
\* the detections of the jobs that returned kept, with every other job
\* issued (the three passes, and all eight regions once the regions were
\* begun), and with a result appended for the image.
C14_FailedJobOnlySkipped ==
    (ImageEnded /\ SomeJobFailed) =>
        /\ HoldsAllReturned(all_results)
        /\ \A n \in 1..Len(FullImagePasses) : Issued("pass", n)
        /\ Issued("region", 1) =>
              \A r \in 1..Len(Regions(ImageShape.width, ImageShape.height)) : Issued("region", r)
        /\ ResultsFor(image) # {}

\* image j has been attempted and left
Handled(j) == j < image \/ (j = image /\ pc \in {"loop", "finish", "done"})

InitializationFailed == \E k \in 1..Len(signals) : signals[k] = Signal("error", 0, 0)

\* the step is a full-image pass that raises
PassRaises ==
    /\ pc = "pass"
    /\ Len(scan_jobs') = Len(scan_jobs) + 1
    /\ ~scan_jobs'[Len(scan_jobs')].returned

\* C15: an image whose processing raises gets exactly one error signal and no
\* result, the results appended before stay as they are, and every image of
\* the batch is attempted: when run has ended after a successful
\* initialization each image has either its one result or its one error.
C15_ImageFailureIsLocal ==
    /\ [](\A j \in 1..Len(image_paths) :
             /\ Cardinality(ResultsFor(j)) + Cardinality(ErrorsFor(j)) <= 1
             /\ Handled(j) => Cardinality(ResultsFor(j)) + Cardinality(ErrorsFor(j)) = 1
             /\ (pc = "done" /\ ~InitializationFailed) => Handled(j))
    /\ [][PassRaises =>
             /\ signals' = Append(signals, Signal("error", image, 0))
             /\ results' = results
             /\ Cardinality(ResultsFor(image)) = 0]_vars
    /\ [][pc' # "get_model" => SubSeq(results', 1, Len(results)) = results]_vars

\* a batch of two images has ended: the first image failed and was reported
\* once, the second has its result
C15_Witness ==
    /\ pc = "done" /\ Len(image_paths) = 2
    /\ Cardinality(ErrorsFor(1)) = 1 /\ ResultsFor(1) = {}
    /\ Cardinality(ResultsFor(2)) = 1 /\ ErrorsFor(2) = {}

\* C16: when get_model fails, no image is processed, no result is appended,
\* finished is never emitted and exactly one error signal is emitted, after
\* which run has ended.
C16_InitializationFailureAborts ==
    InitializationFailed =>
        /\ pc = "done"
        /\ image = 0 /\ scan_jobs = <<>> /\ results = <<>>
        /\ \A k \in 1..Len(signals) : signals[k].signal # "finished"
        /\ Cardinality({k \in 1..Len(signals) : signals[k].signal = "error"}) = 1
        /\ signals[Len(signals)] = Signal("error", 0, 0)

\* initialization failed for a batch that holds images
C16_Witness == InitializationFailed /\ Len(image_paths) = MaxImages /\ pc = "done"

\* C18: the merge runs only when every scan job issued for the image has
\* returned or failed and all three passes were made; it is given the
\* detections of every job that returned; the coordinate is extracted and
\* the result appended only after the merge.
C18_MergeIsAJoin ==
    /\ pc \in {"merge", "format"} =>
          /\ \A n \in 1..Len(FullImagePasses) : Issued("pass", n)
          /\ HoldsAllReturned(all_results)
    /\ pc = "format" => merged_results = _merge_detections(all_results)
    /\ pc \in {"open", "region", "pass", "merge", "format"} => ResultsFor(image) = {}

-----------------------------------------------------------------------------
(* Fragment order, and the rules whose matches become candidates *)

\* the text lists that hold the fragments of list in another order
Reorderings(list) ==
    {[k \in 1..Len(list) |-> list[f[k]]] :
        f \in {g \in [1..Len(list) -> 1..Len(list)] : \A i, j \in 1..Len(list) : g[i] = g[j] => i = j}}

\* C19: the fragments of the text list passed in any other order give the
\* same result: absent, or the same latitude, longitude and confidence.
C19_FragmentOrderIrrelevant ==
    calls > 0 =>
        \A permuted \in Reorderings(text_list) :
           LET other == extract_gps_coordinates(permuted, gps_patterns, exclusion_patterns)
           IN IF result = None THEN other = None
              ELSE /\ other # None
                   /\ other[1].latitude = result[1].latitude
                   /\ other[1].longitude = result[1].longitude
                   /\ other[1].extraction_confidence = result[1].extraction_confidence

\* C20: every match of every rule of the bank, whatever its format tag, is
\* converted to a candidate coordinate that is submitted to validation; no
\* match is dropped before validation.
C20_EveryMatchIsACandidate ==
    calls > 0 => \A k \in 1..Len(parsed) : parsed[k].parsed # None
-----------------------------------------------------------------------------
(* Hemisphere letters of the decimal-degree rules *)

DecimalDegreeRules == {"lat_lon", "decimal_dir_separate", "decimal_dir_attached"}

\* the groups of a decimal-degree rule: latitude number and letter,
\* longitude number and letter
GroupsOfRule(type) ==
    IF type = "decimal_dir_separate"
    THEN [lat |-> 2, lat_dir |-> 1, lon |-> 4, lon_dir |-> 3]
    ELSE [lat |-> 1, lat_dir |-> 2, lon |-> 3, lon_dir |-> 4]

\* the match captured the given hemisphere letter, in either case
CapturedLetter(m, n, letter, text) ==
    ~GroupIsNone(m, n) /\ upper(Group(m, n, text)) = <<letter>>

\* the captured number, negated when the letter was captured
SignedBy(m, number, dir, letter, text) ==
    IF CapturedLetter(m, dir, letter, text)
    THEN Neg(float(Group(m, number, text))) ELSE float(Group(m, number, text))

EntriesOfType(entries, type) ==
    LET OfType(e) == e.type = type IN SelectSeq(entries, OfType)

MatchesOfType(type) ==
    LET rule == CHOOSE r \in {GpsPatternBank[k] : k \in 1..Len(GpsPatternBank)} : r.type = type
    IN finditer(rule.pattern, Subject(Join(text_list)))

\* C21: for every match of a decimal-degree rule the candidate latitude is
\* the captured latitude number negated exactly when the captured latitude
\* letter is S (in either case, the rules match case-insensitively), and the
\* candidate longitude is the captured longitude number negated exactly when
\* the captured longitude letter is W.
C21_HemisphereLetterSetsSign ==
    calls > 0 =>
    \A type \in DecimalDegreeRules :
       LET ms == MatchesOfType(type)
           es == EntriesOfType(parsed, type)
           g == GroupsOfRule(type)
           text == Join(text_list)
       IN /\ Len(es) = Len(ms)
          /\ \A k \in 1..Len(ms) :
                /\ es[k].parsed # None
                /\ es[k].parsed[1].latitude = SignedBy(ms[k], g.lat, g.lat_dir, "S", text)
                /\ es[k].parsed[1].longitude = SignedBy(ms[k], g.lon, g.lon_dir, "W", text)

\* the same with the letters compared as the code compares them: only the
\* capital letter negates (it holds, and so locates the divergence)
C21_CapitalLetterSetsSign ==
    calls > 0 =>
    \A type \in DecimalDegreeRules :
       LET ms == MatchesOfType(type)
           es == EntriesOfType(parsed, type)
           g == GroupsOfRule(type)
           text == Join(text_list)
       IN /\ Len(es) = Len(ms)
          /\ \A k \in 1..Len(ms) :
                /\ es[k].parsed # None
                /\ es[k].parsed[1].latitude =
                      (IF ~GroupIsNone(ms[k], g.lat_dir) /\ Group(ms[k], g.lat_dir, text) = <<"S">>
                       THEN Neg(float(Group(ms[k], g.lat, text)))
                       ELSE float(Group(ms[k], g.lat, text)))
                /\ es[k].parsed[1].longitude =
                      (IF ~GroupIsNone(ms[k], g.lon_dir) /\ Group(ms[k], g.lon_dir, text) = <<"W">>
                       THEN Neg(float(Group(ms[k], g.lon, text)))
                       ELSE float(Group(ms[k], g.lon, text)))

-----------------------------------------------------------------------------
(* The examples of the help text *)

\* v is within one hundredth of a degree of the decimal ip.hh, sign included
ApproxHundredths(v, neg, ip, hh) ==
    /\ v.neg = neg
    /\ AbsDiff(v.ip * FracDen + v.fn, ip * FracDen + hh * (FracDen \div 100)) <= FracDen \div 100

\* the call returned a coordinate of about latitude 40.71, longitude -74.01
ReturnsNewYork ==
    /\ result # None
    /\ ApproxHundredths(result[1].latitude, FALSE, 40, 71)
    /\ ApproxHundredths(result[1].longitude, TRUE, 74, 1)

\* C22: each example string of the SUPPORTED GPS FORMATS help text, given
\* alone as the input text, yields a coordinate of about latitude 40.71,
\* longitude -74.01.
C22_HelpExamplesAreExtracted ==
    (calls > 0 /\ text_list \in HelpExamples) => ReturnsNewYork

\* the five examples other than the plain decimal pair are extracted
C22_ExamplesWithContextAreExtracted ==
    (calls > 0 /\ text_list \in HelpExamples \ {Help_DecimalDegrees}) => ReturnsNewYork

\* the plain decimal pair yields no coordinate
C22_DecimalDegreesRejected ==
    (calls > 0 /\ text_list = Help_DecimalDegrees) => result = None /\ candidates = <<>>

-----------------------------------------------------------------------------
(* What the detection merge keeps and drops *)

\* the entries of list at the positions of S, in order
Pick(list, S) ==
    LET Kept(k) == Cardinality({j \in S : j <= k})
    IN [n \in 1..Cardinality(S) |-> list[CHOOSE k \in S : Kept(k) = n]]

\* the number of entries of list equal to d
Count(list, d) == Cardinality({k \in 1..Len(list) : list[k] = d})

\* sorted holds the entries of list by descending confidence
IsSortedByDescendingConfidence(sorted, list) ==
    /\ Len(sorted) = Len(list)
    /\ \A k \in 1..Len(list) : Count(sorted, list[k]) = Count(list, list[k])
    /\ \A k \in 1..(Len(sorted) - 1) : sorted[k].confidence >= sorted[k + 1].confidence

\* e covers d: it is at least as confident and forms a duplicate pair with it
Covers(e, d) == e.confidence >= d.confidence /\ IsDuplicatePair(d, e)

\* C23: the output of _merge_detections is a sub-list of the input sorted by
\* descending confidence (no detection altered or invented), every detection
\* left out is covered by an output detection of at least its confidence that
\* overlaps it with ratio > 0.5 and text similarity > 0.8, and the detection
\* of highest confidence is retained.
C23_RemovedAreCovered ==
    phase = "returned" =>
       LET sorted == IF detections = <<>> THEN <<>> ELSE sorted_detections
       IN /\ IsSortedByDescendingConfidence(sorted, detections)
          /\ \E S \in SUBSET (1..Len(sorted)) :
                /\ merged = Pick(sorted, S)
                /\ \A p \in (1..Len(sorted)) \ S :
                      \E k \in 1..Len(merged) : Covers(merged[k], sorted[p])
          /\ detections # <<>> =>
                /\ merged # <<>>
                /\ \A k \in 1..Len(detections) :
                      merged[1].confidence >= detections[k].confidence

\* the merge dropped one detection and kept two
C23_Witness ==
    /\ phase = "returned"
    /\ Len(detections) = 3
    /\ Len(merged) = 2
    /\ \E k \in 1..3 : \A j \in 1..2 : merged[j] # detections[k]

NoDuplicatePair(list) ==
    \A i, j \in 1..Len(list) : i # j => ~IsDuplicatePair(list[i], list[j])

\* C24: at every step of the merge loop and in its output no two distinct
\* entries of the accepted list form a duplicate pair (overlap ratio > 0.5
\* and text similarity > 0.8), and no iteration takes the branch that
\* replaces an accepted entry: an iteration either appends the detection or
\* leaves the accepted list as it is.
C24_NoDuplicatesNoReplacement ==
    /\ [](phase \in {"loop", "returned"} => NoDuplicatePair(merged))
    /\ [][(phase = "loop" /\ position' = position + 1) =>
             LET d == sorted_detections[position]
             IN /\ \A k \in 1..Len(merged) :
                      IsDuplicatePair(d, merged[k]) => d.confidence <= merged[k].confidence
                /\ merged' \in {merged, Append(merged, d)}]_vars

\* the loop met a duplicate of an accepted entry and returned two entries
C24_Witness ==
    /\ phase = "returned"
    /\ Len(merged) = 2
    /\ \E k \in 1..Len(sorted_detections) : \E j \in 1..Len(merged) :
          /\ sorted_detections[k] # merged[j]
          /\ IsDuplicatePair(sorted_detections[k], merged[j])

-----------------------------------------------------------------------------
(* The signals of OCRWorker.run *)

SignalsNamed(name) == {k \in 1..Len(signals) : signals[k].signal = name}

\* "OCR model ready" was emitted: get_model returned
InitializationSucceeded == \E k \in SignalsNamed("model_loading") : signals[k].value = 1

\* the images of the batch attempted so far that raised no error
ImagesNotFailed == {j \in 1..Len(image_paths) : Handled(j) /\ ErrorsFor(j) = {}}

\* C25: in a run whose initialization succeeds finished is emitted, once,
\* after the last image has been attempted and after every progress and
\* per-image error signal, and the results it carries are one per image that
\* did not fail, in the order of the image paths.
C25_FinishedOnceWithResults ==
    /\ [](/\ Cardinality(SignalsNamed("finished")) <= 1
          /\ \A k \in SignalsNamed("finished") :
                /\ InitializationSucceeded
                /\ k = Len(signals)
                /\ pc = "done"
                /\ \A j \in 1..Len(image_paths) : Handled(j)
                /\ signals[k].value = Len(results)
                /\ [r \in 1..Len(results) |-> results[r].image_path]
                      = Pick(image_paths, ImagesNotFailed))
    /\ (InitializationSucceeded ~> SignalsNamed("finished") # {})

\* finished was emitted for a batch of two images of which the first failed
\* and the second, which shows no coordinate, has its result
C25_Witness ==
    /\ SignalsNamed("finished") # {}
    /\ Len(image_paths) = 2
    /\ ErrorsFor(1) # {}
    /\ Len(results) = 1 /\ results[1].image_path = 2 /\ results[1].gps_coordinates = None

\* C26: over a non-empty batch the progress values emitted never decrease,
\* and when finished is emitted a progress value of 100 has been emitted,
\* whichever images failed.
C26_ProgressReachesHundred ==
    Len(image_paths) > 0 =>
       /\ \A i, j \in SignalsNamed("progress") : i < j => signals[i].value <= signals[j].value
       /\ SignalsNamed("finished") # {} =>
             \E k \in SignalsNamed("progress") : signals[k].value = 100

\* the progress values never decrease, and 100 was emitted when the last
\* image of the batch did not fail
C26_ProgressMonotone ==
    Len(image_paths) > 0 =>
       /\ \A i, j \in SignalsNamed("progress") : i < j => signals[i].value <= signals[j].value
       /\ (SignalsNamed("finished") # {} /\ ErrorsFor(Len(image_paths)) = {}) =>
             \E k \in SignalsNamed("progress") : signals[k].value = 100


-----------------------------------------------------------------------------
(* The Antarctic rule *)

\* the text list holds the word ANTARCTIC, in any case
MentionsAntarctic ==
    Contains(upper(Join(text_list)), <<"A","N","T","A","R","C","T","I","C">>)

\* some match of the last call was parsed to a latitude south of -60
ParsedSouthOfSixty ==
    \E k \in 1..Len(parsed) :
        parsed[k].parsed # None /\ Lt(parsed[k].parsed[1].latitude, IntNum(-60))

WorkerRunning(w) == ocr_workers[w].pc # "ended"

C27_ProcessDisabledWhileRunning ==
    /\ (\E w \in WorkerIds : WorkerRunning(w)) => ~process_btn
    /\ Cardinality({w \in WorkerIds : WorkerRunning(w)}) <= 1


-----------------------------------------------------------------------------
(* The region crops *)

\* the crop (x1, y1, x2, y2) is not empty and lies inside the image
CropInside(crop, width, height) ==
    /\ 0 <= crop[1] /\ crop[1] < crop[3] /\ crop[3] <= width
    /\ 0 <= crop[2] /\ crop[2] < crop[4] /\ crop[4] <= height

RECURSIVE ReadBefore(_, _)
\* number of detections read in the regions before region k
ReadBefore(reads, k) ==
    IF k = 1 THEN 0 ELSE ReadBefore(reads, k - 1) + Len(reads[k - 1])

\* detection d of region k is returned at its place with every point moved by
\* the origin of the crop, text and confidence as read
Remapped(k, d) ==
    LET read == region_reads[k][d]
        back == roi[ReadBefore(region_reads, k) + d]
        crop == region_list[k]
    IN /\ back.text = read.text
       /\ back.confidence = read.confidence
       /\ Len(back.box) = Len(read.box)
       /\ \A p \in 1..Len(read.box) :
             /\ back.box[p][1] = read.box[p][1] + crop[1]
             /\ back.box[p][2] = read.box[p][2] + crop[2]

\* every readtext of the call returned
AllRegionsRead == Len(region_reads) = 8

\* C29: for an image of width >= 6 and height >= 6 each of the eight crops is
\* non-empty and inside the image, and every detection read in a region is
\* returned with (x1, y1) added to each point, text and confidence unchanged
C29_CropsInsideAndRemapped ==
    (region_list # <<>> /\ img_array.width >= 6 /\ img_array.height >= 6) =>
        /\ Len(region_list) = 8
        /\ \A k \in 1..8 : CropInside(region_list[k], img_array.width, img_array.height)
        /\ AllRegionsRead =>
              /\ Len(roi) = ReadBefore(region_reads, 9)
              /\ \A k \in 1..8 : \A d \in 1..Len(region_reads[k]) : Remapped(k, d)

\* an image of 7 x 11 pixels was scanned and text was found in every region
C29_Witness ==
    /\ img_array = [height |-> 11, width |-> 7]
    /\ AllRegionsRead
    /\ Len(roi) = 8
    /\ roi[8].box # region_reads[8][1].box

\* the bound of the claim is tight: below six pixels some crop is empty
C29_SmallImageHasEmptyCrop ==
    (region_list # <<>> /\ (img_array.width < 6 \/ img_array.height < 6)) =>
        \E k \in 1..8 : ~CropInside(region_list[k], img_array.width, img_array.height)

-----------------------------------------------------------------------------
(* The model cache in sequential use *)

IsGetModel(k) == cache_log[k].op = "get_model"

\* call k was a get_model that returned a model
GetModelReturned(k) == IsGetModel(k) /\ cache_log[k].model # None

\* clear_cache was called after call i and before call j
ClearedBetween(i, j) == \E m \in (i + 1)..(j - 1) : cache_log[m].op = "clear_cache"

\* a get_model for the key returned after call i and before call j
ReturnedBetween(key, i, j) ==
    \E m \in (i + 1)..(j - 1) : GetModelReturned(m) /\ cache_log[m].key = key

\* the model objects returned before call j
ModelsReturnedBefore(j) == {cache_log[m].model : m \in {n \in 1..(j - 1) : GetModelReturned(n)}}

\* a later get_model with the key of a returned one, no clear_cache between
\* them, returns the identical object and builds nothing
SameModelUntilCleared ==
    \A i, j \in 1..Len(cache_log) :
       (/\ i < j /\ GetModelReturned(i) /\ IsGetModel(j)
        /\ cache_log[j].key = cache_log[i].key /\ ~ClearedBetween(i, j))
          => cache_log[j].model = cache_log[i].model /\ cache_log[j].built = 0

\* every OCRModelCache() returned the one instance
OneInstance == Cardinality(Handles) <= 1

\* the first get_model for a key after a clear_cache, when it returns, has
\* built a model that no earlier call returned
BuiltAnewAfterClear ==
    \A i, j \in 1..Len(cache_log) :
       (/\ i < j /\ cache_log[i].op = "clear_cache" /\ GetModelReturned(j)
        /\ ~ReturnedBetween(cache_log[j].key, i, j))
          => cache_log[j].built = 1 /\ cache_log[j].model \notin ModelsReturnedBefore(j)

\* a get_model call leaves the entries of the other keys as they were
OtherKeysKept ==
    (Len(cache_log') = Len(cache_log) + 1 /\ cache_log'[Len(cache_log')].op = "get_model")
       => \A key \in ModelKeys \ {cache_log'[Len(cache_log')].key} : models'[key] = models[key]

\* C30: in sequential use, a get_model with the key of an earlier returned
\* get_model returns the identical object and builds nothing until clear_cache
\* is called; a get_model leaves the entries of other keys alone; every
\* OCRModelCache() is the same instance with the same entries; and after
\* clear_cache the next get_model for a key builds a new model
C30_SequentialCache ==
    /\ [](SameModelUntilCleared /\ OneInstance /\ BuiltAnewAfterClear)
    /\ [][OtherKeysKept]_vars

\* an instance was obtained, a model was built for a key, clear_cache was
\* called, and a second model was built for the same key
C30_Witness ==
    /\ Len(cache_log) = 4
    /\ cache_log[1].op = "OCRModelCache"
    /\ GetModelReturned(2) /\ cache_log[2].built = 1
    /\ cache_log[3].op = "clear_cache"
    /\ GetModelReturned(4) /\ cache_log[4].key = cache_log[2].key
    /\ cache_log[4].model # cache_log[2].model

====
